---- MODULE Spec2Model ----
(***************************************************************************)
(* The heuristic text-analysis pipeline of PersonaForge-AI                 *)
(* (src/analyzer.py, class PersonaAnalyzer): corpus building, the lexicon  *)
(* scorers, the sentiment aggregator, the MBTI estimator, the confidence   *)
(* calculator and the orchestration in analyze_user.                       *)
(*                                                                         *)
(* Numbers that are Python floats in the source are IEEE-754 binary64      *)
(* values here, with every operation rounded to nearest-even as the        *)
(* interpreter and numpy round it.                                         *)
(***************************************************************************)
EXTENDS Integers, Sequences, FiniteSets, TLC

VARIABLES
    user_data,          \* argument of the analyze_user call in progress
    pc,                 \* position of the call inside analyze_user
    all_text,           \* the corpus: list of cleaned text units
    analysis_results,   \* the dict analyze_user is assembling
    retval,             \* what analyze_user returned to its caller
    facet_error,        \* the facet whose computation raised, or "none"
    vectorizer,         \* self.vectorizer: "unfitted" or its fitted vocabulary_
    prev,               \* user_data and result of the previous returned call
    sentiments,         \* list of per-unit polarities given to the aggregator
    type_scores,        \* MBTI indicator counts per pole
    facet,              \* result of the facet function applied on its own
    requests,           \* the /api/analyze requests in flight on the dashboard
    llm                 \* the LLMService object and the log of its generate_persona call

vars == <<user_data, pc, all_text, analysis_results, retval, facet_error,
          vectorizer, prev, sentiments, type_scores, facet, requests, llm>>

Max(x, y) == IF x > y THEN x ELSE y
Min(x, y) == IF x < y THEN x ELSE y
Abs(n) == IF n < 0 THEN -n ELSE n

(***************************************************************************)
(* binary64 arithmetic.  A natural number is a little-endian sequence of   *)
(* base-2^16 digits; a float is (-1)^s * m * 2^e with m of exactly         *)
(* MantissaBits bits (zero: m = <<>>).  The values of the pipeline are far *)
(* from the subnormal and overflow ranges, which are not represented.      *)
(***************************************************************************)
MantissaBits == 53
Base == 2 ^ 16

RECURSIVE Norm(_)
Norm(a) == IF a = <<>> THEN a
           ELSE IF a[Len(a)] = 0 THEN Norm(SubSeq(a, 1, Len(a) - 1)) ELSE a

RECURSIVE NatDigits(_)
NatDigits(n) == IF n = 0 THEN <<>> ELSE <<n % Base>> \o NatDigits(n \div Base)

Digit(a, i) == IF i <= Len(a) THEN a[i] ELSE 0

RECURSIVE AddFrom(_, _, _, _)
AddFrom(a, b, i, carry) ==
    IF i > Max(Len(a), Len(b)) THEN NatDigits(carry)
    ELSE LET s == Digit(a, i) + Digit(b, i) + carry
         IN  <<s % Base>> \o AddFrom(a, b, i + 1, s \div Base)
NatAdd(a, b) == AddFrom(a, b, 1, 0)

\* a - b for a >= b
RECURSIVE SubFrom(_, _, _, _)
SubFrom(a, b, i, borrow) ==
    IF i > Len(a) THEN <<>>
    ELSE LET d == a[i] - Digit(b, i) - borrow
         IN  <<d % Base>> \o SubFrom(a, b, i + 1, IF d < 0 THEN 1 ELSE 0)
NatSub(a, b) == Norm(SubFrom(a, b, 1, 0))

RECURSIVE CmpFrom(_, _, _)
CmpFrom(a, b, i) ==
    IF i = 0 THEN 0
    ELSE IF a[i] # b[i] THEN (IF a[i] > b[i] THEN 1 ELSE -1)
    ELSE CmpFrom(a, b, i - 1)
NatCmp(a, b) ==
    IF Len(a) # Len(b) THEN (IF Len(a) > Len(b) THEN 1 ELSE -1)
    ELSE CmpFrom(a, b, Len(a))

\* a * k for 0 <= k <= 2^15
RECURSIVE MulFrom(_, _, _, _)
MulFrom(a, k, i, carry) ==
    IF i > Len(a) THEN NatDigits(carry)
    ELSE LET p == a[i] * k + carry
         IN  <<p % Base>> \o MulFrom(a, k, i + 1, p \div Base)
NatMulSmall(a, k) == Norm(MulFrom(a, k, 1, 0))

\* <<a div k, a mod k>> for 0 < k <= 2^15
RECURSIVE DivFrom(_, _, _, _)
DivFrom(a, k, i, rem) ==
    IF i = 0 THEN <<<<>>, rem>>
    ELSE LET cur == rem * Base + a[i]
             rest == DivFrom(a, k, i - 1, cur % k)
         IN  <<Append(rest[1], cur \div k), rest[2]>>
NatDivSmall(a, k) == LET r == DivFrom(a, k, Len(a), 0) IN <<Norm(r[1]), r[2]>>

Zeros(k) == [i \in 1..k |-> 0]

\* a * 2^k
NatShiftLeft(a, k) ==
    IF a = <<>> THEN a
    ELSE Zeros(k \div 16) \o NatMulSmall(a, 2 ^ (k % 16))

\* <<a div 2^k, 1 if a mod 2^k > 0 else 0>>
NatShiftRight(a, k) ==
    LET w == Min(k \div 16, Len(a))
        q == NatDivSmall(SubSeq(a, w + 1, Len(a)), 2 ^ (k % 16))
        lost == q[2] # 0 \/ \E i \in 1..w : a[i] # 0
    IN  <<q[1], IF lost THEN 1 ELSE 0>>

\* number of bits of a normalised a
NatBitLen(a) ==
    IF a = <<>> THEN 0
    ELSE 16 * (Len(a) - 1)
         + (CHOOSE k \in 1..16 : 2 ^ (k - 1) <= a[Len(a)] /\ a[Len(a)] < 2 ^ k)

FZero == [s |-> 0, m |-> <<>>, e |-> 0]

\* round-to-nearest-even of (-1)^s * (a + f) * 2^e, 0 <= f < 1, sticky = 1 iff f > 0
FRenormalize(s, r, e) ==
    IF NatBitLen(r) > MantissaBits
    THEN [s |-> s, m |-> NatDivSmall(r, 2)[1], e |-> e + 1]
    ELSE [s |-> s, m |-> r, e |-> e]

\* kept: the leading MantissaBits bits; guard: the next bit; st: a lower bit is set
RoundHalfEven(kept, guard, st) ==
    IF guard = 1 /\ (st \/ kept[1] % 2 = 1) THEN NatAdd(kept, <<1>>) ELSE kept

\* t = <<the leading MantissaBits + 1 bits, 1 iff a lower bit is set>>
FRoundGuarded(s, t, e, sticky) ==
    FRenormalize(s, RoundHalfEven(NatDivSmall(t[1], 2)[1], t[1][1] % 2,
                                  sticky = 1 \/ t[2] = 1), e)

\* L: the number of bits of a
FRoundBits(s, a, e, sticky, L) ==
    IF L = 0 THEN FZero
    ELSE IF L <= MantissaBits
         THEN [s |-> s, m |-> NatShiftLeft(a, MantissaBits - L),
               e |-> e - (MantissaBits - L)]
    ELSE FRoundGuarded(s, NatShiftRight(a, L - MantissaBits - 1),
                       e + (L - MantissaBits), sticky)

FRound(s, a, e, sticky) == FRoundBits(s, a, e, sticky, NatBitLen(a))

\* q = <<quotient, remainder>> of a division scaled by 2^(-e)
FRoundQuotient(s, q, e) == FRound(s, q[1], e, IF q[2] = 0 THEN 0 ELSE 1)

\* float(n) for an int n
FromInt(n) == FRound(IF n < 0 THEN 1 ELSE 0, NatDigits(Abs(n)), 0, 0)
FOne == FromInt(1)

\* c / n for ints c, n (0 < n <= 2^15): Python's true division, correctly rounded
FDivInts(c, n) ==
    FRoundQuotient(IF c < 0 THEN 1 ELSE 0,
                   NatDivSmall(NatShiftLeft(NatDigits(Abs(c)), MantissaBits + 16), n),
                   -(MantissaBits + 16))

\* the float a decimal literal with two places denotes (0.1 is Hundredths(10))
Hundredths(p) == FDivInts(p, 100)

\* x * k and x / k for a float x and an int k, 0 < k <= 2^15
FMulSmall(x, k) == FRound(x.s, NatMulSmall(x.m, k), x.e, 0)
FDivSmall(x, k) == FRoundQuotient(x.s, NatDivSmall(NatShiftLeft(x.m, 16), k), x.e - 16)

FCmpAbs(x, y) ==
    IF x.m = <<>> \/ y.m = <<>>
    THEN (IF x.m = y.m THEN 0 ELSE IF x.m = <<>> THEN -1 ELSE 1)
    ELSE IF x.e # y.e THEN (IF x.e > y.e THEN 1 ELSE -1)
    ELSE NatCmp(x.m, y.m)

\* x < y
FLess(x, y) ==
    IF x.s # y.s THEN x.s = 1
    ELSE IF x.s = 0 THEN FCmpAbs(x, y) < 0 ELSE FCmpAbs(x, y) > 0
FLeq(x, y) == ~FLess(y, x)

FNeg(x) == IF x.m = <<>> THEN x ELSE [x EXCEPT !.s = 1 - x.s]
FAbs(x) == [x EXCEPT !.s = 0]

\* a, b: the magnitudes of x, y in units of 2^e
FAddAligned(x, y, a, b, e) ==
    FRound(IF x.s = y.s \/ NatCmp(a, b) >= 0 THEN x.s ELSE y.s,
           IF x.s = y.s THEN NatAdd(a, b)
           ELSE IF NatCmp(a, b) >= 0 THEN NatSub(a, b) ELSE NatSub(b, a),
           e, 0)
FAddAt(x, y, e) ==
    FAddAligned(x, y, NatShiftLeft(x.m, x.e - e), NatShiftLeft(y.m, y.e - e), e)
FAdd(x, y) ==
    IF x.m = <<>> THEN y
    ELSE IF y.m = <<>> THEN x
    ELSE FAddAt(x, y, Min(x.e, y.e))
FSub(x, y) == FAdd(x, FNeg(y))

\* Python's min(x, y): the first argument unless the other is smaller
FMin(x, y) == IF FLess(y, x) THEN y ELSE x

InUnitInterval(x) == FLeq(FZero, x) /\ FLeq(x, FOne)

(***************************************************************************)
(* numpy.  np.mean(a) is np.add.reduce(a) / len(a); the reduction of a     *)
(* contiguous float64 array is numpy's pairwise summation, which for fewer *)
(* than 8 elements adds left to right and for up to 128 elements keeps 8   *)
(* running sums, combines them as a tree and adds the rest left to right.  *)
(***************************************************************************)
RECURSIVE SumFrom(_, _, _, _)
SumFrom(a, i, n, acc) == IF i > n THEN acc ELSE SumFrom(a, i + 1, n, FAdd(acc, a[i]))

RECURSIVE Lane(_, _, _, _)
Lane(a, i, n, acc) == IF i > n THEN acc ELSE Lane(a, i + 8, n, FAdd(acc, a[i]))

\* ((r[0] + r[1]) + (r[2] + r[3])) + ((r[4] + r[5]) + (r[6] + r[7]))
RECURSIVE PairwiseTree(_, _, _)
PairwiseTree(r, lo, hi) ==
    IF lo = hi THEN r[lo]
    ELSE FAdd(PairwiseTree(r, lo, (lo + hi) \div 2),
              PairwiseTree(r, (lo + hi) \div 2 + 1, hi))

NpSumBlocks(a, n, full) ==
    SumFrom(a, full + 1, n,
            PairwiseTree([k \in 1..8 |-> Lane(a, k + 8, full, a[k])], 1, 8))
NpSum(a) ==
    IF Len(a) < 8 THEN SumFrom(a, 1, Len(a), FZero)
    ELSE NpSumBlocks(a, Len(a), Len(a) - (Len(a) % 8))

\* np.mean of a non-empty list of floats
NpMean(a) == FDivSmall(NpSum(a), Len(a))

(***************************************************************************)
(* Text.  A string is a sequence of atoms: a word (an alphanumeric run), a *)
(* whitespace run of one character, a punctuation character, a character   *)
(* outside the set _clean_text keeps, or a URL.  The atoms carry their     *)
(* real spelling, so len() is the sum of the atoms' lengths.  The alphabet *)
(* has no '[' or '*', on which the markdown substitutions of _clean_text   *)
(* (lines 157-159) act.                                                    *)
(***************************************************************************)
WhitespaceAtoms == {" "}
UrlAtoms == {"http://t.co/x"}
PunctAtoms == {".", "!", "?", ","}
SpecialAtoms == {"#"}
TerminalAtoms == {".", "!", "?"}

IsWord(a) == a \notin WhitespaceAtoms \cup UrlAtoms \cup PunctAtoms \cup SpecialAtoms

\* ' '.join(words) for a list of atoms
RECURSIVE Sentence(_)
Sentence(ws) ==
    IF Len(ws) <= 1 THEN ws ELSE <<Head(ws), " ">> \o Sentence(Tail(ws))

\* len(text)
RECURSIVE TextLen(_)
TextLen(text) == IF text = <<>> THEN 0 ELSE Len(Head(text)) + TextLen(Tail(text))

\* text.strip()
RECURSIVE LStrip(_)
LStrip(text) ==
    IF text # <<>> /\ Head(text) \in WhitespaceAtoms THEN LStrip(Tail(text)) ELSE text
RECURSIVE RStrip(_)
RStrip(text) ==
    IF text # <<>> /\ text[Len(text)] \in WhitespaceAtoms
    THEN RStrip(SubSeq(text, 1, Len(text) - 1)) ELSE text
Strip(text) == RStrip(LStrip(text))

\* re.sub of the URL pattern: the scheme and every following character of the
\* pattern's class, which has letters, digits and punctuation but neither
\* whitespace nor '#'
RECURSIVE RemoveUrls(_, _)
RemoveUrls(text, in_url) ==
    IF text = <<>> THEN <<>>
    ELSE IF Head(text) \in UrlAtoms THEN RemoveUrls(Tail(text), TRUE)
    ELSE IF in_url /\ Head(text) \notin WhitespaceAtoms \cup SpecialAtoms
         THEN RemoveUrls(Tail(text), TRUE)
    ELSE <<Head(text)>> \o RemoveUrls(Tail(text), FALSE)

\* re.sub(r'[^\w\s\.\!\?\,\;\:\-\(\)]', '', text)
KeptCharacter(a) == a \notin SpecialAtoms
RemoveSpecial(text) == SelectSeq(text, KeptCharacter)

\* word characters left adjacent by a removal are one word
RECURSIVE MergeWords(_)
MergeWords(text) ==
    IF Len(text) <= 1 THEN text
    ELSE IF IsWord(text[1]) /\ IsWord(text[2])
         THEN MergeWords(<<text[1] \o text[2]>> \o SubSeq(text, 3, Len(text)))
    ELSE <<Head(text)>> \o MergeWords(Tail(text))

\* ' '.join(text.split())
RECURSIVE CollapseWhitespace(_)
CollapseWhitespace(text) ==
    IF Len(text) <= 1 THEN text
    ELSE IF text[1] \in WhitespaceAtoms /\ text[2] \in WhitespaceAtoms
         THEN CollapseWhitespace(Tail(text))
    ELSE <<Head(text)>> \o CollapseWhitespace(Tail(text))
NormalizeWhitespace(text) == CollapseWhitespace(Strip(text))

\* PersonaAnalyzer._clean_text
CleanText(text) ==
    Strip(NormalizeWhitespace(MergeWords(RemoveSpecial(RemoveUrls(text, FALSE)))))

\* ' '.join(texts)
RECURSIVE JoinTexts(_)
JoinTexts(texts) ==
    IF texts = <<>> THEN <<>>
    ELSE IF Len(texts) = 1 THEN texts[1]
    ELSE texts[1] \o <<" ">> \o JoinTexts(Tail(texts))

\* str.lower(): the words of the vocabulary spelled with capitals
LowerAtom(a) ==
    CASE a = "Quiet" -> "quiet"
      [] a = "I" -> "i"
      [] a = "Great" -> "great"
      [] OTHER -> a
Lower(text) == [i \in DOMAIN text |-> LowerAtom(text[i])]

\* nltk.word_tokenize: the words and the punctuation marks, in order
IsToken(a) == a \notin WhitespaceAtoms
WordTokenize(text) == SelectSeq(text, IsToken)

\* len(nltk.sent_tokenize(text)): a sentence ends at a terminal mark that
\* another token follows
SentenceCount(text) ==
    LET tok == WordTokenize(text)
    IN  IF tok = <<>> THEN 0
        ELSE 1 + Cardinality({i \in 1..(Len(tok) - 1) :
                                 tok[i] \in TerminalAtoms /\ tok[i + 1] \notin TerminalAtoms})

\* str.isalpha() on a token
NonAlphaWords == {"2024"}
IsAlpha(tok) == IsWord(tok) /\ tok \notin NonAlphaWords

\* stopwords.words('english'), the members that the vocabulary has
stop_words == {"i", "a", "the", "and", "is", "it", "what", "this", "was", "to",
               "so", "we", "just", "now", "here", "too", "on", "there"}

Range(f) == {f[i] : i \in DOMAIN f}
Count(seq, S) == Cardinality({i \in DOMAIN seq : seq[i] \in S})

(***************************************************************************)
(* Lexicon tables (PersonaAnalyzer.__init__ and _estimate_mbti_type).      *)
(***************************************************************************)
TraitOrder == <<"introvert", "extrovert", "analytical", "creative", "sarcastic",
                "formal", "casual", "confident", "uncertain", "positive", "negative">>

\* the introvert and extrovert keyword lists exchanged
SwappedPersonalityIndicators ==
    [introvert |-> {"social", "outgoing", "energetic", "talkative", "friendly", "party"},
     extrovert |-> {"alone", "quiet", "private", "reserved", "shy", "solitary"},
     analytical |-> {"analysis", "data", "research", "study", "evidence", "logical"},
     creative |-> {"creative", "art", "design", "imagination", "original", "unique"},
     sarcastic |-> {"sarcasm", "irony", "sarcastic", "joking", "humor", "wit"},
     formal |-> {"formal", "professional", "proper", "respectful", "courteous"},
     casual |-> {"casual", "relaxed", "informal", "chill", "laid-back", "easy-going"},
     confident |-> {"confident", "sure", "certain", "definitely", "absolutely"},
     uncertain |-> {"maybe", "perhaps", "might", "could", "possibly", "uncertain"},
     positive |-> {"good", "great", "awesome", "amazing", "wonderful", "excellent"},
     negative |-> {"bad", "terrible", "awful", "horrible", "disappointing", "frustrating"}]
personality_indicators ==
    [introvert |-> {"alone", "quiet", "private", "reserved", "shy", "solitary"},
     extrovert |-> {"social", "outgoing", "energetic", "talkative", "friendly", "party"},
     analytical |-> {"analysis", "data", "research", "study", "evidence", "logical"},
     creative |-> {"creative", "art", "design", "imagination", "original", "unique"},
     sarcastic |-> {"sarcasm", "irony", "sarcastic", "joking", "humor", "wit"},
     formal |-> {"formal", "professional", "proper", "respectful", "courteous"},
     casual |-> {"casual", "relaxed", "informal", "chill", "laid-back", "easy-going"},
     confident |-> {"confident", "sure", "certain", "definitely", "absolutely"},
     uncertain |-> {"maybe", "perhaps", "might", "could", "possibly", "uncertain"},
     positive |-> {"good", "great", "awesome", "amazing", "wonderful", "excellent"},
     negative |-> {"bad", "terrible", "awful", "horrible", "disappointing", "frustrating"}]

InterestOrder == <<"technology", "gaming", "sports", "politics", "science",
                   "entertainment", "finance", "health", "education", "travel">>

interest_categories ==
    [technology |-> {"programming", "coding", "software", "tech", "computer", "ai",
                     "machine learning"},
     gaming |-> {"game", "gaming", "playstation", "xbox", "nintendo", "steam", "gamer"},
     sports |-> {"football", "basketball", "soccer", "baseball", "tennis", "sport", "athlete"},
     politics |-> {"politics", "political", "government", "election", "policy", "democracy"},
     science |-> {"science", "scientific", "research", "study", "experiment", "discovery"},
     entertainment |-> {"movie", "film", "music", "tv", "show", "entertainment", "celebrity"},
     finance |-> {"money", "finance", "investment", "stock", "trading", "economy"},
     health |-> {"health", "medical", "fitness", "exercise", "diet", "wellness"},
     education |-> {"education", "learning", "school", "university", "study", "academic"},
     travel |-> {"travel", "trip", "vacation", "destination", "tourism", "adventure"}]

MbtiPoles == <<"E", "I", "S", "N", "T", "F", "J", "P">>

mbti_indicators ==
    [E |-> {"social", "people", "group", "party", "friends", "outgoing"},
     I |-> {"alone", "quiet", "private", "solitary", "introvert", "personal"},
     S |-> {"practical", "detail", "fact", "concrete", "specific", "realistic"},
     N |-> {"creative", "imagination", "abstract", "theory", "possibility", "vision"},
     T |-> {"logic", "analysis", "reason", "objective", "factual", "systematic"},
     F |-> {"feel", "emotion", "value", "relationship", "harmony", "compassion"},
     J |-> {"plan", "organize", "structure", "decide", "control", "schedule"},
     P |-> {"flexible", "spontaneous", "open", "explore", "adapt", "curious"}]

mbti_descriptions ==
    [INTJ |-> "The Architect", INTP |-> "The Logician", ENTJ |-> "The Commander",
     ENTP |-> "The Debater", INFJ |-> "The Advocate", INFP |-> "The Mediator",
     ENFJ |-> "The Protagonist", ENFP |-> "The Campaigner", ISTJ |-> "The Logistician",
     ISFJ |-> "The Defender", ESTJ |-> "The Executive", ESFJ |-> "The Consul",
     ISTP |-> "The Virtuoso", ISFP |-> "The Adventurer", ESTP |-> "The Entrepreneur",
     ESFP |-> "The Entertainer"]

\* `indicator in all_text`: substring containment.  An indicator has no
\* whitespace, so it lies inside one atom: it is the atom, or the atom is one of
\* the words of the vocabulary that contain it.
ProperSubstrings ==
    {<<"plan", "planet">>, <<"personal", "personality">>, <<"feel", "feeling">>,
     <<"fact", "factual">>, <<"logic", "logical">>, <<"open", "opened">>,
     <<"social", "antisocial">>}
Contains(text, indicator) ==
    \E i \in DOMAIN text : text[i] = indicator \/ <<indicator, text[i]>> \in ProperSubstrings

EmptyDict == <<>>
IsEmpty(d) == DOMAIN d = {}

(***************************************************************************)
(* The facets.                                                             *)
(***************************************************************************)
\* sum(len(text) for text in texts)
RECURSIVE TotalLen(_)
TotalLen(texts) == IF texts = <<>> THEN 0 ELSE TextLen(Head(texts)) + TotalLen(Tail(texts))

IsMeaningful(word) == IsAlpha(word) /\ word \notin stop_words

LexicalDiversityOfCount(meaningful_words) ==
    FDivInts(Len(meaningful_words), Max(Cardinality(Range(meaningful_words)), 1))
\* len(set(meaningful_words)) / max(len(meaningful_words), 1)
LexicalDiversity(meaningful_words) ==
    FDivInts(Cardinality(Range(meaningful_words)), Max(Len(meaningful_words), 1))

\* PersonaAnalyzer._analyze_text_statistics
AnalyzeTextStatistics(texts) ==
    IF texts = <<>> THEN EmptyDict
    ELSE LET joined == JoinTexts(texts)
             words == WordTokenize(Lower(joined))
             sentences == SentenceCount(joined)
             meaningful_words == SelectSeq(words, IsMeaningful)
         IN  [total_texts |-> Len(texts),
              total_words |-> Len(words),
              meaningful_words |-> Len(meaningful_words),
              total_sentences |-> sentences,
              avg_words_per_text |-> FDivInts(Len(words), Len(texts)),
              avg_sentences_per_text |-> FDivInts(sentences, Len(texts)),
              avg_words_per_sentence |-> FDivInts(Len(words), Max(sentences, 1)),
              vocabulary_size |-> Cardinality(Range(meaningful_words)),
              lexical_diversity |-> LexicalDiversity(meaningful_words),
              avg_text_length |-> FDivInts(TotalLen(texts), Len(texts))]

\* the thresholds included: a difference of exactly 0.1 already changes the label
SentimentTrendInclusive(recent_avg, older_avg) ==
    [trend |-> IF FLeq(FAdd(older_avg, Hundredths(10)), recent_avg) THEN "improving"
               ELSE IF FLeq(recent_avg, FSub(older_avg, Hundredths(10))) THEN "declining"
               ELSE "stable",
     recent_sentiment |-> recent_avg,
     older_sentiment |-> older_avg,
     change |-> FSub(recent_avg, older_avg)]
\* lines 250-260 of _analyze_sentiment_trends, from the two averages
SentimentTrend(recent_avg, older_avg) ==
    [trend |-> IF FLess(FAdd(older_avg, Hundredths(10)), recent_avg) THEN "improving"
               ELSE IF FLess(recent_avg, FSub(older_avg, Hundredths(10))) THEN "declining"
               ELSE "stable",
     recent_sentiment |-> recent_avg,
     older_sentiment |-> older_avg,
     change |-> FSub(recent_avg, older_avg)]

\* np.mean(values) if values else 0
MeanOrZero(values) == IF values # <<>> THEN NpMean(values) ELSE FZero

AnalyzeSentimentTrendsOldestFirst(sents) ==
    IF Len(sents) < 2 THEN EmptyDict
    ELSE SentimentTrend(MeanOrZero(SubSeq(sents, 1, Min(10, Len(sents)))),
                        MeanOrZero(SubSeq(sents, 11, Len(sents))))
\* the corpus cut in two halves: the older slice is the first half of the
\* units however few they are
AnalyzeSentimentTrendsByHalves(sents) ==
    IF Len(sents) < 2 THEN EmptyDict
    ELSE SentimentTrend(NpMean(SubSeq(sents, Len(sents) \div 2 + 1, Len(sents))),
                        NpMean(SubSeq(sents, 1, Len(sents) \div 2)))
\* PersonaAnalyzer._analyze_sentiment_trends
AnalyzeSentimentTrends(sents) ==
    IF Len(sents) < 2 THEN EmptyDict
    ELSE LET recent_sentiments == SubSeq(sents, Max(Len(sents) - 9, 1), Len(sents))
             older_sentiments == IF Len(sents) > 10 THEN SubSeq(sents, 1, Len(sents) - 10)
                                 ELSE <<>>
         IN  SentimentTrend(MeanOrZero(recent_sentiments), MeanOrZero(older_sentiments))

IsPositive(s) == FLess(Hundredths(10), s)
IsNegative(s) == FLess(s, FNeg(Hundredths(10)))
IsStrictlyNeutral(s) == FLess(FNeg(Hundredths(10)), s) /\ FLess(s, Hundredths(10))
IsNeutral(s) == FLeq(FNeg(Hundredths(10)), s) /\ FLeq(s, Hundredths(10))

\* PersonaAnalyzer._analyze_sentiment, from the scorer's outputs on
\* (lines 209-235)
SentimentFacet(sents, avg_sentiment, avg_subjectivity) ==
    [overall_sentiment |-> avg_sentiment,
     sentiment_category |-> IF IsPositive(avg_sentiment) THEN "positive"
                            ELSE IF IsNegative(avg_sentiment) THEN "negative"
                            ELSE "neutral",
     subjectivity |-> avg_subjectivity,
     sentiment_distribution |->
         [positive |-> Cardinality({i \in DOMAIN sents : IsPositive(sents[i])}),
          neutral |-> Cardinality({i \in DOMAIN sents : IsNeutral(sents[i])}),
          negative |-> Cardinality({i \in DOMAIN sents : IsNegative(sents[i])})],
     sentiment_trends |-> AnalyzeSentimentTrends(sents),
     confidence |-> FMin(FMulSmall(FAbs(avg_sentiment), 2), FOne)]

AggregateSentiment(sents, subjectivity_scores) ==
    SentimentFacet(sents, NpMean(sents), NpMean(subjectivity_scores))

\* TextBlob(text).sentiment: the third-party scorer, a fixed function of the
\* text.  Polarity and subjectivity, in hundredths, of the words its lexicon
\* has, averaged over the occurrences in the text; 0.0 when there is none.
PolarityLexicon ==
    [good |-> 70, great |-> 80, awesome |-> 100, bad |-> -70, terrible |-> -100]
SubjectivityLexicon ==
    [good |-> 60, great |-> 75, awesome |-> 100, bad |-> 67, terrible |-> 100]
RECURSIVE SumOver(_, _)
SumOver(words, lexicon) ==
    IF words = <<>> THEN 0 ELSE lexicon[Head(words)] + SumOver(Tail(words), lexicon)
InPolarityLexicon(word) == word \in DOMAIN PolarityLexicon
Scored(text) == SelectSeq(WordTokenize(Lower(text)), InPolarityLexicon)
TextBlobPolarity(text) ==
    IF Scored(text) = <<>> THEN FZero
    ELSE FDivInts(SumOver(Scored(text), PolarityLexicon), 100 * Len(Scored(text)))
TextBlobSubjectivity(text) ==
    IF Scored(text) = <<>> THEN FZero
    ELSE FDivInts(SumOver(Scored(text), SubjectivityLexicon), 100 * Len(Scored(text)))

\* PersonaAnalyzer._analyze_sentiment when the scorer returns for every text
AnalyzeSentiment(texts) ==
    IF texts = <<>> THEN EmptyDict
    ELSE AggregateSentiment([i \in DOMAIN texts |-> TextBlobPolarity(texts[i])],
                            [i \in DOMAIN texts |-> TextBlobSubjectivity(texts[i])])

\* sorted(scores.items(), key=lambda x: x[1], reverse=True) as list.sort
\* computes it: the list is reversed, sorted by ascending key with a stable
\* insertion sort, and reversed again
Reversed(seq) == [i \in DOMAIN seq |-> seq[Len(seq) + 1 - i]]
\* scores.items(): the (key, score) pairs in the insertion order of the dict
Items(scores, order) == [i \in DOMAIN order |-> <<order[i], scores[order[i]]>>]
\* x placed after every element whose key is not greater than its own
RECURSIVE InsertByKey(_, _)
InsertByKey(run, x) ==
    IF run = <<>> THEN <<x>>
    ELSE IF FLess(x[2], run[Len(run)][2])
         THEN Append(InsertByKey(SubSeq(run, 1, Len(run) - 1), x), run[Len(run)])
         ELSE Append(run, x)
RECURSIVE SortAscending(_)
SortAscending(items) ==
    IF items = <<>> THEN <<>>
    ELSE InsertByKey(SortAscending(SubSeq(items, 1, Len(items) - 1)), items[Len(items)])
SortedReverse(items) == Reversed(SortAscending(Reversed(items)))
\* sorted(...)[::-1][:5]: an ascending sort read backwards, which turns the
\* order of equal scores around
TopFiveOfAscending(scores, order) ==
    SubSeq(Reversed(SortAscending(Items(scores, order))), 1, Min(5, Len(order)))
\* sorted(scores.items(), key=lambda x: x[1], reverse=True)[:5]
TopFive(scores, order) ==
    SubSeq(SortedReverse(Items(scores, order)), 1, Min(5, Len(order)))

\* max(values) of a non-empty list of floats
RECURSIVE MaxFrom(_, _, _)
MaxFrom(a, i, best) ==
    IF i > Len(a) THEN best ELSE MaxFrom(a, i + 1, IF FLess(best, a[i]) THEN a[i] ELSE best)
FMaxOf(a) == MaxFrom(a, 2, a[1])

\* a tie decided for the first letter of the pair
DeterminePersonalityTypeTieFirst(trait_scores) ==
    LET base_type == IF FLeq(trait_scores["extrovert"], trait_scores["introvert"])
                     THEN "I" ELSE "E"
        function_type == IF FLeq(trait_scores["creative"], trait_scores["analytical"])
                         THEN "T" ELSE "F"
    IN  base_type \o function_type \o "XX"
\* PersonaAnalyzer._determine_personality_type
DeterminePersonalityType(trait_scores) ==
    LET base_type == IF FLess(trait_scores["extrovert"], trait_scores["introvert"])
                     THEN "I" ELSE "E"
        function_type == IF FLess(trait_scores["creative"], trait_scores["analytical"])
                         THEN "T" ELSE "F"
    IN  base_type \o function_type \o "XX"

\* PersonaAnalyzer._calculate_personality_confidence
CalculatePersonalityConfidence(trait_scores) ==
    IF IsEmpty(trait_scores) THEN FZero
    ELSE LET values == [i \in DOMAIN TraitOrder |-> trait_scores[TraitOrder[i]]]
             max_score == FMaxOf(values)
             avg_score == NpMean(values)
             confidence == FMulSmall(FSub(max_score, avg_score), 2)
         IN  FMin(confidence, FOne)

TraitScoreUnclamped(count, n_texts) == FMulSmall(FDivInts(count, Max(n_texts, 1)), 10)
\* the trait score of lines 274-277 from the number of indicators found
TraitScore(count, n_texts) ==
    FMin(FMulSmall(FDivInts(count, Max(n_texts, 1)), 10), FOne)

\* the facet of lines 279-290 from the trait scores
PersonalityFacet(trait_scores) ==
    [trait_scores |-> trait_scores,
     dominant_traits |-> TopFive(trait_scores, TraitOrder),
     personality_type |-> DeterminePersonalityType(trait_scores),
     confidence |-> CalculatePersonalityConfidence(trait_scores)]

\* every occurrence of an indicator in the token stream counted
DetectPersonalityTraitsByFrequency(texts) ==
    IF texts = <<>> THEN EmptyDict
    ELSE LET words == WordTokenize(Lower(JoinTexts(texts)))
         IN  PersonalityFacet(
                 [t \in Range(TraitOrder) |->
                     TraitScore(Count(words, personality_indicators[t]), Len(texts))])
\* PersonaAnalyzer._detect_personality_traits
DetectPersonalityTraits(texts) ==
    IF texts = <<>> THEN EmptyDict
    ELSE LET words == Range(WordTokenize(Lower(JoinTexts(texts))))
         IN  PersonalityFacet(
                 [t \in Range(TraitOrder) |->
                     TraitScore(Cardinality(personality_indicators[t] \cap words),
                                Len(texts))])

\* the interest score of lines 332-335 from the number of keyword tokens
InterestScore(count, n_words) ==
    FMin(FMulSmall(FDivInts(count, Max(n_words, 1)), 100), FOne)

\* the distinct keywords found counted, not their occurrences
DetectInterestsByPresence(texts) ==
    IF texts = <<>> THEN EmptyDict
    ELSE LET words == WordTokenize(Lower(JoinTexts(texts)))
             interest_scores ==
                 [c \in Range(InterestOrder) |->
                     InterestScore(Cardinality(Range(words) \cap interest_categories[c]),
                                   Len(words))]
             top_interests == TopFive(interest_scores, InterestOrder)
         IN  [interest_scores |-> interest_scores,
              top_interests |-> top_interests,
              primary_interest |-> IF top_interests # <<>> THEN top_interests[1][1]
                                   ELSE "general",
              interest_diversity |->
                  Cardinality({c \in Range(InterestOrder) :
                                  FLess(Hundredths(10), interest_scores[c])})]
\* PersonaAnalyzer._detect_interests
DetectInterests(texts) ==
    IF texts = <<>> THEN EmptyDict
    ELSE LET words == WordTokenize(Lower(JoinTexts(texts)))
             interest_scores ==
                 [c \in Range(InterestOrder) |->
                     InterestScore(Count(words, interest_categories[c]), Len(words))]
             top_interests == TopFive(interest_scores, InterestOrder)
         IN  [interest_scores |-> interest_scores,
              top_interests |-> top_interests,
              primary_interest |-> IF top_interests # <<>> THEN top_interests[1][1]
                                   ELSE "general",
              interest_diversity |->
                  Cardinality({c \in Range(InterestOrder) :
                                  FLess(Hundredths(10), interest_scores[c])})]

\* np.mean of an empty list
FNaN == [s |-> 0, m |-> <<>>, e |-> 1]

\* PersonaAnalyzer._analyze_writing_style
StyleComplexity(avg_sentence_length) ==
    IF FLess(FromInt(20), avg_sentence_length) THEN "complex"
    ELSE IF FLess(FromInt(15), avg_sentence_length) THEN "moderate"
    ELSE "simple"

\* tenth: len(sentences) * 0.1
StyleTone(tenth, exclamation_count, question_count) ==
    IF FLess(tenth, FromInt(exclamation_count)) THEN "enthusiastic"
    ELSE IF FLess(tenth, FromInt(question_count)) THEN "inquisitive"
    ELSE "neutral"

WritingStyleFacet(avg_sentence_length, avg_word_length, style_complexity, style_tone, punctuation_count, exclamation_count, question_count) ==
    [avg_sentence_length |-> avg_sentence_length,
     avg_word_length |-> avg_word_length,
     complexity |-> style_complexity,
     tone |-> style_tone,
     punctuation_usage |-> [total |-> punctuation_count,
                            exclamations |-> exclamation_count,
                            questions |-> question_count],
     summary |-> <<style_complexity, style_tone>>]

AnalyzeWritingStyle(texts) ==
    IF texts = <<>> THEN EmptyDict
    ELSE LET joined == JoinTexts(texts)
             sentences == SentenceCount(joined)
             avg_sentence_length == FDivInts(Len(WordTokenize(joined)), sentences)
             words == SelectSeq(WordTokenize(Lower(joined)), IsAlpha)
             avg_word_length == IF words = <<>> THEN FNaN
                                ELSE FDivInts(TextLen(words), Len(words))
         IN  WritingStyleFacet(avg_sentence_length, avg_word_length,
                               StyleComplexity(avg_sentence_length),
                               StyleTone(FMulSmall(Hundredths(10), sentences),
                                         Count(joined, {"!"}), Count(joined, {"?"})),
                               Count(joined, TerminalAtoms),
                               Count(joined, {"!"}), Count(joined, {"?"}))

(***************************************************************************)
(* user_data: [posts |-> <<post, ...>>, comments |-> <<comment, ...>>].    *)
(* A post has title and body, a comment has body; both have score,         *)
(* created_utc and subreddit.  A missing or None field is the empty text   *)
(* <<>>, a missing created_utc is 0; both are falsy in the source too.     *)
(***************************************************************************)
Activities(data) == data.posts \o data.comments

\* the first key with the largest count, in the order of first occurrence
\* (max over Counter.items(), and Counter.most_common)
FirstIndex(seq, x) == CHOOSE i \in DOMAIN seq : seq[i] = x /\ \A j \in 1..(i - 1) : seq[j] # x
Occurrences(seq, x) == Cardinality({i \in DOMAIN seq : seq[i] = x})
MostCommonFirst(seq) ==
    CHOOSE x \in Range(seq) :
        \A y \in Range(seq) :
            \/ Occurrences(seq, x) > Occurrences(seq, y)
            \/ Occurrences(seq, x) = Occurrences(seq, y)
               /\ FirstIndex(seq, x) <= FirstIndex(seq, y)

IsNight(hour) == 22 <= hour \/ hour <= 6
HasTimestamp(activity) == activity.created_utc # 0

\* PersonaAnalyzer._analyze_activity_patterns
AnalyzeActivityPatterns(data) ==
    LET activities == Activities(data)
        stamped == SelectSeq(activities, HasTimestamp)
        hours == [i \in DOMAIN stamped |-> (stamped[i].created_utc \div 3600) % 24]
        dates == {stamped[i].created_utc \div 86400 : i \in DOMAIN stamped}
        night_activity == Cardinality({i \in DOMAIN hours : IsNight(hours[i])})
        day_activity == Len(hours) - night_activity
    IN  IF activities = <<>> \/ stamped = <<>> THEN EmptyDict
        ELSE [total_activities |-> Len(activities),
              activity_frequency |-> FDivInts(Len(activities), Max(Cardinality(dates), 1)),
              peak_hour |-> MostCommonFirst(hours),
              activity_pattern |-> IF night_activity > day_activity THEN "night_owl"
                                   ELSE IF day_activity > night_activity * 2
                                        THEN "early_bird"
                                   ELSE "balanced",
              hour_distribution |-> [h \in Range(hours) |-> Occurrences(hours, h)],
              night_activity_ratio |-> FDivInts(night_activity, Len(hours))]

RECURSIVE TotalScore(_)
TotalScore(activities) ==
    IF activities = <<>> THEN 0 ELSE Head(activities).score + TotalScore(Tail(activities))

\* PersonaAnalyzer._determine_engagement_level
DetermineEngagementLevel(avg_score, activity_count) ==
    IF FLess(FromInt(50), avg_score) /\ activity_count > 20 THEN "high"
    ELSE IF FLess(FromInt(10), avg_score) /\ activity_count > 10 THEN "moderate"
    ELSE "low"

\* PersonaAnalyzer._analyze_community_engagement
AnalyzeCommunityEngagement(data) ==
    LET activities == Activities(data)
        subreddits == [i \in DOMAIN activities |-> activities[i].subreddit]
        total_score == TotalScore(activities)
        avg_score == FDivInts(total_score, Len(activities))
    IN  IF activities = <<>> THEN EmptyDict
        ELSE [subreddit_diversity |-> Cardinality(Range(subreddits)),
              top_subreddits |-> [r \in Range(subreddits) |-> Occurrences(subreddits, r)],
              avg_score |-> avg_score,
              total_score |-> total_score,
              comment_ratio |-> FDivInts(Len(data.comments), Max(Len(activities), 1)),
              engagement_level |-> DetermineEngagementLevel(avg_score, Len(activities))]

(***************************************************************************)
(* Topic modelling and clustering.  The fitted models of scikit-learn are  *)
(* terms over their inputs: equal inputs and equal random_state give the   *)
(* equal model, different ones a different model.                          *)
(***************************************************************************)
\* ENGLISH_STOP_WORDS of scikit-learn, the members that the vocabulary has
sklearn_stop_words == stop_words \cup {"nothing", "much", "see", "keep", "along"}

\* processed_texts of lines 486-488
ProcessText(text) == SelectSeq(WordTokenize(Lower(text)), IsMeaningful)

\* the analyzer of TfidfVectorizer(stop_words='english', ngram_range=(1, 2)):
\* tokens of two or more characters that are no stop words, and their bigrams
IsTerm(word) == Len(word) >= 2 /\ word \notin sklearn_stop_words
DocTerms(doc) ==
    LET tok == SelectSeq(doc, IsTerm)
    IN  {<<tok[i]>> : i \in DOMAIN tok}
        \cup {<<tok[i], tok[i + 1]>> : i \in 1..(Len(tok) - 1)}

\* the terms min_df lets in: those of at least min_df documents
min_df == 2
PrunedVocabulary(docs) ==
    {t \in UNION {DocTerms(docs[i]) : i \in DOMAIN docs} :
        Cardinality({i \in DOMAIN docs : t \in DocTerms(docs[i])}) >= min_df}

UnfittedVectorizer == [fitted |-> FALSE, vocabulary_ |-> {}]

\* TfidfVectorizer.fit_transform: learns the vocabulary anew from docs
FitVocabularyOnce(vec, docs) ==
    IF vec.fitted THEN vec.vocabulary_ ELSE PrunedVocabulary(docs)
FitVocabulary(vec, docs) == PrunedVocabulary(docs)

random_state == 42

\* a vectorizer that keeps the vocabulary of its earlier fits
PerformTopicModelingAccumulating(texts, vec) ==
    IF Len(texts) < 3 THEN <<EmptyDict, vec>>
    ELSE LET processed_texts == [i \in DOMAIN texts |-> ProcessText(texts[i])]
             vocabulary == vec.vocabulary_ \cup PrunedVocabulary(processed_texts)
             fitted == [fitted |-> TRUE, vocabulary_ |-> vocabulary]
             tfidf_matrix == [docs |-> processed_texts, vocabulary |-> vocabulary]
             n_topics == Min(5, Len(texts) \div 2)
             lda == [model |-> "LatentDirichletAllocation", n_components |-> n_topics,
                     random_state |-> random_state, fit |-> tfidf_matrix]
         IN  IF vocabulary = {}
             THEN <<EmptyDict, vec>>
             ELSE <<[n_topics |-> n_topics,
                     topics |-> [components_ |-> lda, feature_names |-> fitted.vocabulary_],
                     topic_coherence |-> [score |-> lda, X |-> tfidf_matrix]],
                    fitted>>
\* topics modelled from two units on
PerformTopicModelingFromTwoUnits(texts, vec) ==
    IF Len(texts) < 2 THEN <<EmptyDict, vec>>
    ELSE LET processed_texts == [i \in DOMAIN texts |-> ProcessText(texts[i])]
             vocabulary == FitVocabulary(vec, processed_texts)
             fitted == [fitted |-> TRUE, vocabulary_ |-> vocabulary]
             tfidf_matrix == [docs |-> processed_texts, vocabulary |-> vocabulary]
             n_topics == Min(5, Len(texts) \div 2)
             lda == [model |-> "LatentDirichletAllocation", n_components |-> n_topics,
                     random_state |-> random_state, fit |-> tfidf_matrix]
         IN  IF vocabulary = {}
             THEN <<EmptyDict, vec>>
             ELSE <<[n_topics |-> n_topics,
                     topics |-> [components_ |-> lda, feature_names |-> fitted.vocabulary_],
                     topic_coherence |-> [score |-> lda, X |-> tfidf_matrix]],
                    fitted>>
\* PersonaAnalyzer._perform_topic_modeling: <<the facet, self.vectorizer after it>>
PerformTopicModeling(texts, vec) ==
    IF Len(texts) < 3 THEN <<EmptyDict, vec>>
    ELSE LET processed_texts == [i \in DOMAIN texts |-> ProcessText(texts[i])]
             vocabulary == FitVocabulary(vec, processed_texts)
             fitted == [fitted |-> TRUE, vocabulary_ |-> vocabulary]
             tfidf_matrix == [docs |-> processed_texts, vocabulary |-> vocabulary]
             n_topics == Min(5, Len(texts) \div 2)
             lda == [model |-> "LatentDirichletAllocation", n_components |-> n_topics,
                     random_state |-> random_state, fit |-> tfidf_matrix]
         IN  IF vocabulary = {}
             THEN <<EmptyDict, vec>>      \* ValueError, caught on line 516
             ELSE <<[n_topics |-> n_topics,
                     topics |-> [components_ |-> lda, feature_names |-> fitted.vocabulary_],
                     topic_coherence |-> [score |-> lda, X |-> tfidf_matrix]],
                    fitted>>

\* PersonaAnalyzer._create_behavioral_clusters
CreateBehavioralClusters(data) ==
    LET activities == Activities(data)
        features == [i \in DOMAIN activities |->
                        <<activities[i].score,
                          TextLen(activities[i].body),
                          activities[i].num_comments,
                          IF activities[i].is_self THEN 1 ELSE 0>>]
        n_clusters == Min(3, Len(features) \div 2)
        kmeans == [model |-> "KMeans", n_clusters |-> n_clusters,
                   random_state |-> random_state, fit |-> features]
    IN  IF activities = <<>> \/ Len(features) < 2 THEN EmptyDict
        ELSE [n_clusters |-> n_clusters,
              clusters |-> [analysis_of |-> kmeans],
              cluster_labels |-> [labels_of |-> kmeans]]

\* PersonaAnalyzer._calculate_mbti_confidence
CalculateMbtiConfidence(scores) ==
    IF IsEmpty(scores) THEN FZero
    ELSE LET e_i_diff == Abs(scores["E"] - scores["I"])
             s_n_diff == Abs(scores["S"] - scores["N"])
             t_f_diff == Abs(scores["T"] - scores["F"])
             j_p_diff == Abs(scores["J"] - scores["P"])
             avg_diff == FDivInts(e_i_diff + s_n_diff + t_f_diff + j_p_diff, 4)
         IN  FMin(FDivSmall(avg_diff, 5), FOne)

AxisLetterOnTie(scores, first, second) ==
    IF scores[first] >= scores[second] THEN first ELSE second
\* a tied axis left undecided, with a letter of its own
AxisLetterUndecided(scores, first, second) ==
    IF scores[first] > scores[second] THEN first
    ELSE IF scores[first] < scores[second] THEN second ELSE "X"
\* the letter of one axis (lines 594-597)
AxisLetter(scores, first, second) == IF scores[first] > scores[second] THEN first ELSE second

\* the facet of lines 593-626 from the indicator counts
MbtiFacet(scores) ==
    LET mbti_type == AxisLetter(scores, "E", "I") \o AxisLetter(scores, "S", "N")
                     \o AxisLetter(scores, "T", "F") \o AxisLetter(scores, "J", "P")
    IN  [type |-> mbti_type,
         description |-> IF mbti_type \in DOMAIN mbti_descriptions
                         THEN mbti_descriptions[mbti_type] ELSE "Unknown type",
         scores |-> scores,
         confidence |-> CalculateMbtiConfidence(scores)]

\* the indicator counts of lines 588-591
MbtiTypeScores(texts) ==
    LET lowered == Lower(JoinTexts(texts))
    IN  [p \in Range(MbtiPoles) |->
            Cardinality({ind \in mbti_indicators[p] : Contains(lowered, ind)})]

\* PersonaAnalyzer._estimate_mbti_type
EstimateMbtiType(texts) ==
    IF texts = <<>> THEN EmptyDict ELSE MbtiFacet(MbtiTypeScores(texts))

\* dict.get(key, default)
Get(d, key, default) == IF key \in DOMAIN d THEN d[key] ELSE default

\* an entry for each of the nine facets, the default 0.5 for an empty one
CalculateConfidenceScoresWithDefaults(results) ==
    LET facet_of(k) == Get(results, k, EmptyDict)
    IN  [k \in {"text_statistics", "sentiment_analysis", "personality_traits",
                "interests", "writing_style", "activity_patterns",
                "community_engagement", "topic_modeling", "mbti_estimation"} |->
            IF IsEmpty(facet_of(k)) THEN Hundredths(50)
            ELSE Get(facet_of(k), "confidence", Hundredths(80))]
\* PersonaAnalyzer._calculate_confidence_scores
CalculateConfidenceScores(results) ==
    LET facet_of(k) == Get(results, k, EmptyDict)
        scored == {k \in {"text_statistics", "sentiment_analysis", "personality_traits",
                          "interests", "writing_style", "activity_patterns",
                          "community_engagement", "topic_modeling", "mbti_estimation"} :
                      ~IsEmpty(facet_of(k))}
    IN  [k \in scored |->
            CASE k = "text_statistics" ->
                    FMin(FDivInts(Cardinality(DOMAIN facet_of(k)), 10), FOne)
              [] k = "sentiment_analysis" -> Get(facet_of(k), "confidence", Hundredths(50))
              [] k = "personality_traits" -> Get(facet_of(k), "confidence", Hundredths(50))
              [] k = "interests" ->
                    FMin(FDivInts(Get(facet_of(k), "interest_diversity", 0), 5), FOne)
              [] k = "writing_style" -> Hundredths(80)
              [] k = "activity_patterns" ->
                    FMin(FDivInts(Cardinality(DOMAIN facet_of(k)), 5), FOne)
              [] k = "community_engagement" -> Hundredths(90)
              [] k = "topic_modeling" ->
                    FMin(FDivInts(Get(facet_of(k), "n_topics", 0), 3), FOne)
              [] k = "mbti_estimation" -> Get(facet_of(k), "confidence", Hundredths(50))]

FacetKeys == <<"text_statistics", "sentiment_analysis", "personality_traits", "interests",
               "writing_style", "activity_patterns", "community_engagement",
               "topic_modeling", "behavioral_clusters", "mbti_estimation",
               "confidence_scores">>

EmptyAnalysisResultWithActivity ==
    [k \in Range(FacetKeys) |->
        IF k = "activity_patterns" THEN [total_activities |-> 0] ELSE EmptyDict]
\* PersonaAnalyzer._empty_analysis_result
EmptyAnalysisResult == [k \in Range(FacetKeys) |-> EmptyDict]

\* PersonaAnalyzer._extract_text_data
Truthy(text) == text # <<>>
\* the length test on the text as it came, surrounding whitespace included
PassesFilterUnstripped(text) == Truthy(text) /\ TextLen(text) > 10
PassesFilter(text) == Truthy(text) /\ TextLen(Strip(text)) > 10
RECURSIVE PostTexts(_)
PostTexts(posts) ==
    IF posts = <<>> THEN <<>>
    ELSE (IF Truthy(Head(posts).title) THEN <<Head(posts).title>> ELSE <<>>)
         \o (IF Truthy(Head(posts).body) THEN <<Head(posts).body>> ELSE <<>>)
         \o PostTexts(Tail(posts))
RECURSIVE CommentTexts(_)
CommentTexts(comments) ==
    IF comments = <<>> THEN <<>>
    ELSE (IF Truthy(Head(comments).body) THEN <<Head(comments).body>> ELSE <<>>)
         \o CommentTexts(Tail(comments))
\* the comments' texts taken before the posts'
ExtractTextDataCommentsFirst(data) ==
    LET text_data == CommentTexts(data.comments) \o PostTexts(data.posts)
        filtered == SelectSeq(text_data, PassesFilter)
        cleaned == [i \in DOMAIN filtered |-> CleanText(filtered[i])]
    IN  SelectSeq(cleaned, Truthy)
ExtractTextData(data) ==
    LET text_data == PostTexts(data.posts) \o CommentTexts(data.comments)
        filtered == SelectSeq(text_data, PassesFilter)
        cleaned == [i \in DOMAIN filtered |-> CleanText(filtered[i])]
    IN  SelectSeq(cleaned, Truthy)

(***************************************************************************)
(* Inputs.                                                                 *)
(***************************************************************************)
Post(title, body, score, created_utc, subreddit, num_comments) ==
    [title |-> title, body |-> body, score |-> score, created_utc |-> created_utc,
     subreddit |-> subreddit, num_comments |-> num_comments, is_self |-> body # <<>>]
\* a comment has neither title nor num_comments nor is_self: read as absent
Comment(body, score, created_utc, subreddit) ==
    [title |-> <<>>, body |-> body, score |-> score, created_utc |-> created_utc,
     subreddit |-> subreddit, num_comments |-> 0, is_self |-> FALSE]

GameTitle == Sentence(<<"Great", "game", "review">>)
GameBody == Sentence(<<"this", "game", "is", "a", "great", "game">>) \o <<"!">>
QuietTitle == Sentence(<<"Quiet", "and", "alone">>)
QuietBody == Sentence(<<"I", "feel", "quiet", "and", "alone", "today">>) \o <<".">>
BadText == Sentence(<<"the", "game", "was", "bad", "and", "terrible">>)
ShortText == Sentence(<<"too", "short">>)
PaddedText == <<" ", " ">> \o Sentence(<<"hi", "there">>) \o <<" ", " ", " ">>
HashText == [i \in 1..11 |-> "#"]
UrlText == <<"see", " ", "http://t.co/x", ".", " ", "#", " ">>
StopText == Sentence(<<"it", "is", "what", "it", "is">>)
TraitsText == Sentence(<<"alone", "social", "data", "art", "humor", "formal", "casual",
                         "sure", "maybe", "good", "bad">>)
PlanText == Sentence(<<"people", "plan", "a", "party", "on", "the", "planet", "2024">>)
StudyText == Sentence(<<"my", "data", "and", "research", "study">>)
FillerText == Sentence(<<"nothing", "much", "to", "see", "here", "so", "we", "just",
                         "keep", "walking", "along", "now">>)

Hour == 60 * 60
PostPool ==
    {Post(GameTitle, GameBody, 12, 23 * Hour, "gaming", 3),
     Post(QuietTitle, QuietBody, -2, 33 * Hour, "self", 0),
     Post(ShortText, HashText, 5, 0, "test", 0)}
CommentPool ==
    {Comment(BadText, 1, 10 * Hour, "gaming"),
     Comment(PaddedText, 0, 2 * Hour, "self"),
     Comment(UrlText, 7, 0, "test")}

MaxPosts == 1
MaxComments == 2

RECURSIVE SeqsUpTo(_, _)
SeqsUpTo(S, n) ==
    IF n = 0 THEN {<<>>}
    ELSE LET shorter == SeqsUpTo(S, n - 1)
         IN  shorter \cup {Append(q, x) : q \in shorter, x \in S}

UserDataSet ==
    {[posts |-> ps, comments |-> cs] :
        ps \in SeqsUpTo(PostPool, MaxPosts), cs \in SeqsUpTo(CommentPool, MaxComments)}

\* corpora of up to MaxCore units of the pool followed by up to MaxFill filler
\* units, each unit one comment
UnitPool == {QuietBody, GameBody, BadText, StopText, TraitsText, PlanText, StudyText}
MaxCore == 2
MaxFill == 10
CorpusDataSet ==
    {[posts |-> <<>>,
      comments |-> [i \in 1..(Len(core) + fill) |->
                       Comment(IF i <= Len(core) THEN core[i] ELSE FillerText,
                               i, (7 * i) * Hour, "self")]] :
        core \in SeqsUpTo(UnitPool, MaxCore), fill \in 0..MaxFill}

NoData == [posts |-> <<>>, comments |-> <<>>]
NoPrev == [valid |-> FALSE, result |-> EmptyDict]

\* the two requests the dashboard serves at a time, none of them received yet
Subjects == {"user1", "user2"}
NoRequests ==
    [r \in Subjects |-> [stage |-> "idle", user_data |-> NoData, analysis_results |-> EmptyDict]]

\* the two LLM providers of the service, in the order generate_persona tries them
Providers == <<"groq", "gemini">>
\* an LLMService no generate_persona call has used: its two clients (None when
\* _initialize_clients could not create them), the loop counter and
\* last_exception of each _call_*_with_retry frame, and the log of the API calls,
\* retry delays and failures of the call
NoCalls == [p \in Range(Providers) |-> [attempt |-> 0, last_exception |-> "None"]]
NoService == [groq_client |-> FALSE, gemini_client |-> FALSE, frames |-> NoCalls, log |-> <<>>]

(***************************************************************************)
(* analyze_user, one step per entry of its dict literal.  The coroutine    *)
(* has no suspension point (the awaited _perform_topic_modeling awaits     *)
(* nothing), so a call runs to its end before the next one starts.         *)
(***************************************************************************)
Idle == pc \in {"idle", "returned", "raised"}

\* PersonaAnalyzer.__init__: a fresh analyzer replaces the one in use
Construct ==
    /\ Idle
    /\ vectorizer' = UnfittedVectorizer
    /\ UNCHANGED <<user_data, pc, all_text, analysis_results, retval, facet_error, prev,
                   sentiments, type_scores, facet, requests, llm>>

\* analyze_user(d) is entered: the frame of a new call
Enter(d) ==
    /\ Idle
    /\ user_data' = d
    /\ pc' = "extract"
    /\ all_text' = <<>>
    /\ analysis_results' = EmptyDict
    /\ retval' = EmptyDict
    /\ facet_error' = "none"
    /\ prev' = IF pc = "returned" /\ d = user_data
               THEN [valid |-> TRUE, result |-> retval] ELSE NoPrev
    /\ UNCHANGED <<vectorizer, sentiments, type_scores, facet, llm>>

\* the caller awaits analyzer.analyze_user(d)
Call(d) == Enter(d) /\ UNCHANGED requests

\* lines 97-102
ExtractText ==
    /\ pc = "extract"
    /\ all_text' = ExtractTextData(user_data)
    /\ IF all_text' = <<>>
       THEN pc' = "returned" /\ retval' = EmptyAnalysisResult
       ELSE pc' = "text_statistics" /\ UNCHANGED retval
    /\ UNCHANGED <<user_data, analysis_results, facet_error, vectorizer, prev,
                   sentiments, type_scores, facet, requests, llm>>

EntrySkipped(key, value, next) ==
    /\ pc = key
    /\ analysis_results' = analysis_results
    /\ pc' = next
    /\ UNCHANGED <<user_data, all_text, retval, facet_error, prev,
                   sentiments, type_scores, facet, requests, llm>>
\* one entry of the dict literal of lines 105-117
Entry(key, value, next) ==
    /\ pc = key
    /\ analysis_results' = (key :> value) @@ analysis_results
    /\ pc' = next
    /\ UNCHANGED <<user_data, all_text, retval, facet_error, prev,
                   sentiments, type_scores, facet, requests, llm>>

TextStatistics ==
    /\ Entry("text_statistics", AnalyzeTextStatistics(all_text), "sentiment_analysis")
    /\ UNCHANGED vectorizer

\* the scorer returns for every text, or raises: _analyze_sentiment has no
\* handler and neither has analyze_user
SentimentAnalysis ==
    \E scorer_raises \in BOOLEAN :
        IF scorer_raises
        THEN /\ pc = "sentiment_analysis"
             /\ pc' = "raised"
             /\ facet_error' = "sentiment_analysis"
             /\ UNCHANGED <<user_data, all_text, analysis_results, retval, vectorizer, prev,
                            sentiments, type_scores, facet, requests, llm>>
        ELSE /\ Entry("sentiment_analysis", AnalyzeSentiment(all_text), "personality_traits")
             /\ UNCHANGED vectorizer

PersonalityTraits ==
    /\ Entry("personality_traits", DetectPersonalityTraits(all_text), "interests")
    /\ UNCHANGED vectorizer

Interests ==
    /\ Entry("interests", DetectInterests(all_text), "writing_style")
    /\ UNCHANGED vectorizer

WritingStyle ==
    /\ Entry("writing_style", AnalyzeWritingStyle(all_text), "activity_patterns")
    /\ UNCHANGED vectorizer

ActivityPatterns ==
    /\ Entry("activity_patterns", AnalyzeActivityPatterns(user_data), "community_engagement")
    /\ UNCHANGED vectorizer

CommunityEngagement ==
    /\ Entry("community_engagement", AnalyzeCommunityEngagement(user_data), "topic_modeling")
    /\ UNCHANGED vectorizer

TopicModeling ==
    LET r == PerformTopicModeling(all_text, vectorizer)
    IN  /\ Entry("topic_modeling", r[1], "behavioral_clusters")
        /\ vectorizer' = r[2]

BehavioralClusters ==
    /\ Entry("behavioral_clusters", CreateBehavioralClusters(user_data), "mbti_estimation")
    /\ UNCHANGED vectorizer

\* the last two entries: 'mbti_estimation' and 'confidence_scores': {}
MbtiEstimation ==
    /\ pc = "mbti_estimation"
    /\ analysis_results' = ("mbti_estimation" :> EstimateMbtiType(all_text))
                           @@ ("confidence_scores" :> EmptyDict) @@ analysis_results
    /\ pc' = "confidence_scores"
    /\ UNCHANGED <<user_data, all_text, retval, facet_error, vectorizer, prev,
                   sentiments, type_scores, facet, requests, llm>>

\* the calculator runs over the result and a facet is recomputed after it
ConfidenceScoresThenFacet ==
    /\ pc = "confidence_scores"
    /\ analysis_results' = [analysis_results EXCEPT
                               !["confidence_scores"] = CalculateConfidenceScores(analysis_results),
                               !["mbti_estimation"] = EmptyDict]
    /\ pc' = "return"
    /\ UNCHANGED <<user_data, all_text, retval, facet_error, vectorizer, prev,
                   sentiments, type_scores, facet, requests, llm>>
\* line 120
ConfidenceScores ==
    /\ pc = "confidence_scores"
    /\ analysis_results' = [analysis_results EXCEPT
                               !["confidence_scores"] = CalculateConfidenceScores(analysis_results)]
    /\ pc' = "return"
    /\ UNCHANGED <<user_data, all_text, retval, facet_error, vectorizer, prev,
                   sentiments, type_scores, facet, requests, llm>>

\* line 123
Return ==
    /\ pc = "return"
    /\ retval' = analysis_results
    /\ pc' = "returned"
    /\ UNCHANGED <<user_data, all_text, analysis_results, facet_error, vectorizer, prev,
                   sentiments, type_scores, facet, requests, llm>>

Analyze ==
    \/ ExtractText
    \/ TextStatistics
    \/ SentimentAnalysis
    \/ PersonalityTraits
    \/ Interests
    \/ WritingStyle
    \/ ActivityPatterns
    \/ CommunityEngagement
    \/ TopicModeling
    \/ BehavioralClusters
    \/ MbtiEstimation
    \/ ConfidenceScores
    \/ Return

Init ==
    /\ user_data = NoData
    /\ pc = "idle"
    /\ all_text = <<>>
    /\ analysis_results = EmptyDict
    /\ retval = EmptyDict
    /\ facet_error = "none"
    /\ vectorizer = UnfittedVectorizer
    /\ prev = NoPrev
    /\ sentiments = <<>>
    /\ type_scores = EmptyDict
    /\ facet = EmptyDict
    /\ requests = NoRequests
    /\ llm = NoService

\* calls, one after the other, on one analyzer or on fresh ones
Next ==
    \/ Construct
    \/ \E d \in UserDataSet : Call(d)
    \/ Analyze

Spec == Init /\ [][Next]_vars

\* one call on a corpus of the wider family
CallCorpus == pc = "idle" /\ \E d \in CorpusDataSet : Call(d)
NextCorpus == CallCorpus \/ Analyze
SpecCorpus == Init /\ [][NextCorpus]_vars

(***************************************************************************)
(* The /api/analyze handler of the dashboard, for two requests in flight   *)
(* on the one event loop.  A handler is suspended while its scraper works; *)
(* the awaited analyzer.analyze_user never suspends, so the handler that   *)
(* entered it leaves it before the other handler runs again.  Both use the *)
(* module-level analyzer and so the same self.vectorizer.                  *)
(***************************************************************************)
ServerDataSet ==
    {[posts |-> ps, comments |-> cs] :
        ps \in SeqsUpTo(PostPool, 1),
        cs \in SeqsUpTo({Comment(BadText, 1, 10 * Hour, "gaming")}, 1)}

NoDataCollected(d) == d.posts = <<>> /\ d.comments = <<>>

\* lines 514-516: the scraper hands the subject's data to its handler
Scrape(r, d) ==
    /\ requests[r].stage = "idle"
    /\ requests' = [requests EXCEPT ![r] = [stage |-> "scraped", user_data |-> d,
                                            analysis_results |-> EmptyDict]]
    /\ UNCHANGED <<user_data, pc, all_text, analysis_results, retval, facet_error,
                   vectorizer, prev, sentiments, type_scores, facet, llm>>

\* lines 518-524: nothing was collected, the analyzer is not called
TemplatePersona(r) ==
    /\ requests[r].stage = "scraped"
    /\ NoDataCollected(requests[r].user_data)
    /\ requests' = [requests EXCEPT ![r].stage = "done"]
    /\ UNCHANGED <<user_data, pc, all_text, analysis_results, retval, facet_error,
                   vectorizer, prev, sentiments, type_scores, facet, llm>>

\* line 526: the handler enters analyzer.analyze_user(user_data)
StartAnalysis(r) ==
    /\ requests[r].stage = "scraped"
    /\ ~NoDataCollected(requests[r].user_data)
    /\ \A q \in Subjects : requests[q].stage # "analyzing"
    /\ Enter(requests[r].user_data)
    /\ requests' = [requests EXCEPT ![r].stage = "analyzing"]

\* line 526: the call returns its result to the handler, or raises into it
FinishAnalysis(r) ==
    /\ requests[r].stage = "analyzing"
    /\ pc \in {"returned", "raised"}
    /\ requests' = [requests EXCEPT
                       ![r].stage = IF pc = "returned" THEN "done" ELSE "failed",
                       ![r].analysis_results = IF pc = "returned" THEN retval ELSE EmptyDict]
    /\ pc' = "idle"
    /\ UNCHANGED <<user_data, all_text, analysis_results, retval, facet_error,
                   vectorizer, prev, sentiments, type_scores, facet, llm>>

NextServer ==
    \/ \E r \in Subjects, d \in ServerDataSet : Scrape(r, d)
    \/ \E r \in Subjects : TemplatePersona(r)
    \/ \E r \in Subjects : StartAnalysis(r)
    \/ \E r \in Subjects : FinishAnalysis(r)
    \/ Analyze
SpecServer == Init /\ [][NextServer]_vars

(***************************************************************************)
(* _analyze_sentiment from the scorer's outputs: the polarities of the     *)
(* units, in insertion order, are the input; the subjectivities are equal. *)
(***************************************************************************)
PolarityValues == {-50, -10, 0, 10, 50}
BlockValues == {-50, 50}
SubjectivityValues == {0, 50, 100}
MaxSeq == 3
MaxBlock == 10

Block(v, n) == [i \in 1..n |-> Hundredths(v)]
SentimentInputs ==
    {[i \in DOMAIN q |-> Hundredths(q[i])] : q \in SeqsUpTo(PolarityValues, MaxSeq) \ {<<>>}}
    \cup {Block(v, a) \o Block(w, b) : v \in BlockValues, w \in BlockValues,
                                       a \in 1..MaxBlock, b \in 1..MaxBlock}

InitSentiment ==
    /\ sentiments \in SentimentInputs
    /\ user_data = NoData
    /\ pc = "scored"
    /\ all_text = <<>>
    /\ analysis_results = EmptyDict
    /\ retval = EmptyDict
    /\ facet_error = "none"
    /\ vectorizer = UnfittedVectorizer
    /\ prev = NoPrev
    /\ type_scores = EmptyDict
    /\ facet = EmptyDict
    /\ requests = NoRequests
    /\ llm = NoService

Aggregate ==
    /\ pc = "scored"
    /\ \E sub \in SubjectivityValues :
           facet' = AggregateSentiment(sentiments, Block(sub, Len(sentiments)))
    /\ pc' = "aggregated"
    /\ UNCHANGED <<user_data, all_text, analysis_results, retval, facet_error, vectorizer,
                   prev, sentiments, type_scores, requests, llm>>

SpecSentiment == InitSentiment /\ [][Aggregate]_vars

(***************************************************************************)
(* _estimate_mbti_type from the keyword counts of the eight poles          *)
(***************************************************************************)
MaxHits == 1

InitMbti ==
    /\ type_scores \in [Range(MbtiPoles) -> 0..MaxHits]
    /\ user_data = NoData
    /\ pc = "counted"
    /\ all_text = <<>>
    /\ analysis_results = EmptyDict
    /\ retval = EmptyDict
    /\ facet_error = "none"
    /\ vectorizer = UnfittedVectorizer
    /\ prev = NoPrev
    /\ sentiments = <<>>
    /\ facet = EmptyDict
    /\ requests = NoRequests
    /\ llm = NoService

Estimate ==
    /\ pc = "counted"
    /\ facet' = MbtiFacet(type_scores)
    /\ pc' = "estimated"
    /\ UNCHANGED <<user_data, all_text, analysis_results, retval, facet_error, vectorizer,
                   prev, sentiments, type_scores, requests, llm>>

SpecMbti == InitMbti /\ [][Estimate]_vars

(***************************************************************************)
(* Properties of analyze_user                                              *)
(***************************************************************************)
Returned == pc = "returned"

\* C1: whenever analyze_user returns, for an empty or a non-empty corpus, the
\* returned mapping has exactly the eleven facet keys, none missing, none extra
ExactlyTheFacetKeys ==
    Returned => DOMAIN retval = Range(FacetKeys) /\ Cardinality(DOMAIN retval) = 11
\* a call on a non-empty corpus has returned its eleven facets
FullResultReturned ==
    Returned /\ all_text # <<>> /\ DOMAIN retval = Range(FacetKeys)

\* C2: when the built corpus is empty, analyze_user returns the canonical empty
\* result (every facet the empty mapping) and has run no facet
EmptyCorpusEmptyResult ==
    (Returned /\ all_text = <<>>) =>
        /\ retval = [k \in Range(FacetKeys) |-> EmptyDict]
        /\ analysis_results = EmptyDict
\* the raw input has a post and a comment, with timestamps and scores the
\* activity and engagement facets would report, yet the corpus is empty
EmptyCorpusFromRawInput ==
    /\ Returned /\ all_text = <<>>
    /\ user_data.posts # <<>> /\ user_data.comments # <<>>
    /\ ~IsEmpty(AnalyzeActivityPatterns(user_data))
    /\ ~IsEmpty(AnalyzeCommunityEngagement(user_data))
    /\ retval["activity_patterns"] = EmptyDict

\* C3: when the sentiment scorer raises during analyze_user, the exception does
\* not reach the caller: the call goes on to return a result
FacetFailureContained == facet_error # "none" => pc # "raised"

\* C4: every value of the confidence_scores mapping analyze_user returns lies
\* in [0,1]
ConfidenceScoresInUnitInterval ==
    Returned =>
        \A k \in DOMAIN retval["confidence_scores"] :
            InUnitInterval(retval["confidence_scores"][k])

\* C8: every trait score and every interest score lies in [0,1]
HasFacet(key) == key \in DOMAIN analysis_results /\ ~IsEmpty(analysis_results[key])
LexiconScoresInUnitInterval ==
    /\ HasFacet("personality_traits") =>
           \A t \in Range(TraitOrder) :
               InUnitInterval(analysis_results["personality_traits"].trait_scores[t])
    /\ HasFacet("interests") =>
           \A c \in Range(InterestOrder) :
               InUnitInterval(analysis_results["interests"].interest_scores[c])
\* both clamps have acted: a trait found in each text (ten times its rate is
\* above 1) and an interest whose keywords are over a hundredth of the words
ScoresClamped ==
    /\ HasFacet("personality_traits") /\ HasFacet("interests")
    /\ \E t \in Range(TraitOrder) :
           /\ analysis_results["personality_traits"].trait_scores[t] = FOne
           /\ FLess(FOne, TraitScoreUnclamped(
                              Cardinality(personality_indicators[t]
                                          \cap Range(WordTokenize(Lower(JoinTexts(all_text))))),
                              Len(all_text)))
    /\ \E c \in Range(InterestOrder) :
           analysis_results["interests"].interest_scores[c] = FOne

\* C9: lexical_diversity lies in [0,1] and is 0 when the corpus has no
\* meaningful word
LexicalDiversityInUnitInterval ==
    HasFacet("text_statistics") =>
        /\ InUnitInterval(analysis_results["text_statistics"].lexical_diversity)
        /\ analysis_results["text_statistics"].meaningful_words = 0 =>
               analysis_results["text_statistics"].lexical_diversity = FZero
\* the statistics of a non-empty corpus of stop words only
NoMeaningfulWord ==
    /\ HasFacet("text_statistics")
    /\ analysis_results["text_statistics"].total_words > 0
    /\ analysis_results["text_statistics"].meaningful_words = 0
    /\ analysis_results["text_statistics"].lexical_diversity = FZero

\* C5: on each MBTI axis the first pole is the letter only when its count is
\* strictly greater than the other pole's; on equal counts (both zero included)
\* the letter is the second pole: I, N, F, P
LetterOf(first, second) ==
    IF type_scores[first] > type_scores[second] THEN first ELSE second
MbtiTieBreak ==
    pc = "estimated" =>
        facet.type = LetterOf("E", "I") \o LetterOf("S", "N")
                     \o LetterOf("T", "F") \o LetterOf("J", "P")
\* every axis tied on a count above zero: the estimate is INFP
AllAxesTied ==
    /\ pc = "estimated"
    /\ \A p \in Range(MbtiPoles) : type_scores[p] = 1
    /\ facet.type = "INFP"

\* C6: each unit's polarity is in exactly one of the buckets positive,
\* negative, neutral, and the three counts sum to the number of units
ExactlyOneBucket(s) ==
    /\ IsPositive(s) \/ IsNegative(s) \/ IsNeutral(s)
    /\ ~(IsPositive(s) /\ IsNegative(s))
    /\ ~(IsPositive(s) /\ IsNeutral(s))
    /\ ~(IsNegative(s) /\ IsNeutral(s))
SentimentBucketsPartition ==
    pc = "aggregated" =>
        /\ \A i \in DOMAIN sentiments : ExactlyOneBucket(sentiments[i])
        /\ facet.sentiment_distribution.positive + facet.sentiment_distribution.neutral
           + facet.sentiment_distribution.negative = Len(sentiments)
\* polarities 0.5, 0.1, -0.5: one unit in each bucket, the threshold value neutral
OneUnitPerBucket ==
    /\ pc = "aggregated"
    /\ sentiments = <<Hundredths(50), Hundredths(10), Hundredths(-50)>>
    /\ facet.sentiment_distribution = [positive |-> 1, neutral |-> 1, negative |-> 1]

\* C7 as stated: ten polarities of +0.5 followed by five of -0.5 give the
\* trend "improving"
TenThenFive == Block(50, 10) \o Block(-50, 5)
TrendImproving ==
    (pc = "aggregated" /\ sentiments = TenThenFive) =>
        facet.sentiment_trends.trend = "improving"
\* C7 amended: for that sequence the trend is "declining": the last ten units
\* (five of +0.5, five of -0.5) average 0.0, the first five average +0.5
TrendDeclining ==
    (pc = "aggregated" /\ sentiments = TenThenFive) =>
        /\ facet.sentiment_trends.trend = "declining"
        /\ facet.sentiment_trends.recent_sentiment = FZero
        /\ facet.sentiment_trends.older_sentiment = Hundredths(50)
TenThenFiveAggregated ==
    /\ pc = "aggregated"
    /\ sentiments = TenThenFive
    /\ facet.sentiment_trends.trend = "declining"

\* C10: a second analyze_user on the same user_data, on the same analyzer or
\* on a fresh one, returns what the first returned
Idempotent == (Returned /\ prev.valid) => retval = prev.result
\* a repeated call whose topic model was fitted has returned
RepeatedCallReturned ==
    /\ Returned /\ prev.valid
    /\ ~IsEmpty(retval["topic_modeling"])
    /\ vectorizer.fitted


\* C11: for a corpus of three units of 12 or more characters each, whose first
\* unit has the words "quiet" and "alone" once each and none of whose units has
\* an extrovert keyword, the returned trait_scores have introvert > 0 and
\* extrovert = 0
Words(text) == WordTokenize(Lower(text))
QuietAloneScenario ==
    /\ Len(all_text) = 3
    /\ \A i \in 1..3 : TextLen(all_text[i]) >= 12
    /\ Count(Words(all_text[1]), {"quiet"}) = 1
    /\ Count(Words(all_text[1]), {"alone"}) = 1
    /\ \A i \in 1..3 :
           Range(Words(all_text[i])) \cap {"social", "outgoing", "energetic",
                                          "talkative", "friendly", "party"} = {}
IntrovertNotExtrovert ==
    (Returned /\ QuietAloneScenario) =>
        /\ FLess(FZero, retval["personality_traits"].trait_scores["introvert"])
        /\ retval["personality_traits"].trait_scores["extrovert"] = FZero
\* the scenario has been analysed and returned; another unit of the corpus
\* has keywords of other traits
QuietAloneReturned ==
    /\ Returned /\ QuietAloneScenario
    /\ FLess(FZero, retval["personality_traits"].trait_scores["negative"])


\* C12: the confidence calculation starts only when the ten other facets are
\* in the result; it leaves them as they are and its scores are those of the
\* facet values the call returns; nothing changes the result after it
OtherFacets == Range(FacetKeys) \ {"confidence_scores"}
ConfidenceStep == pc = "confidence_scores" /\ pc' = "return"
ConfidenceRunsLast ==
    [][/\ ConfidenceStep =>
              /\ OtherFacets \subseteq DOMAIN analysis_results
              /\ \A k \in OtherFacets : analysis_results'[k] = analysis_results[k]
              /\ analysis_results'["confidence_scores"] =
                     CalculateConfidenceScores(analysis_results')
       /\ pc = "return" =>
              /\ retval' = analysis_results
              /\ retval'["confidence_scores"] = CalculateConfidenceScores(retval')]_vars
\* the calculator has scored the facets of a non-empty corpus and the call
\* has returned them
ConfidenceCalculated ==
    /\ Returned /\ all_text # <<>>
    /\ DOMAIN retval["confidence_scores"] # {}
    /\ \A k \in OtherFacets \ {"behavioral_clusters"} : ~IsEmpty(retval[k])


\* C13: of two requests for different subjects in flight on the dashboard's
\* analyzer, each gets the result its data has on an analyzer of its own: no
\* order of the two runs lets the data of one reach the result of the other
WithConfidence(results) ==
    [results EXCEPT !["confidence_scores"] = CalculateConfidenceScores(results)]
ResultAlone(data, texts) ==
    IF texts = <<>> THEN EmptyAnalysisResult
    ELSE WithConfidence(
             [text_statistics |-> AnalyzeTextStatistics(texts),
              sentiment_analysis |-> AnalyzeSentiment(texts),
              personality_traits |-> DetectPersonalityTraits(texts),
              interests |-> DetectInterests(texts),
              writing_style |-> AnalyzeWritingStyle(texts),
              activity_patterns |-> AnalyzeActivityPatterns(data),
              community_engagement |-> AnalyzeCommunityEngagement(data),
              topic_modeling |-> PerformTopicModeling(texts, UnfittedVectorizer)[1],
              behavioral_clusters |-> CreateBehavioralClusters(data),
              mbti_estimation |-> EstimateMbtiType(texts),
              confidence_scores |-> EmptyDict])
Analysed(r) == requests[r].stage = "done" /\ ~NoDataCollected(requests[r].user_data)
RunsDoNotInterfere ==
    \A r \in Subjects :
        Analysed(r) =>
            requests[r].analysis_results =
                ResultAlone(requests[r].user_data, ExtractTextData(requests[r].user_data))
\* user2 got a topic model of its corpus; user1, with other data, has since
\* run on the same analyzer and refitted the vectorizer on its own corpus
SecondRunRefitted ==
    /\ Analysed("user2")
    /\ ~IsEmpty(requests["user2"].analysis_results["topic_modeling"])
    /\ requests["user1"].stage = "analyzing" /\ pc = "return"
    /\ requests["user1"].user_data # requests["user2"].user_data
    /\ ~IsEmpty(analysis_results["topic_modeling"])
    /\ vectorizer.vocabulary_ #
           requests["user2"].analysis_results["topic_modeling"].topics.feature_names


\* the text fields of the raw input in source order: each post's title, then
\* its body, post after post, then each comment's body
FieldsInOrder(data) ==
    [i \in 1..(2 * Len(data.posts)) |->
        IF i % 2 = 1 THEN data.posts[(i + 1) \div 2].title ELSE data.posts[i \div 2].body]
    \o [j \in DOMAIN data.comments |-> data.comments[j].body]
Extracted == pc # "extract"

\* the cleaned text of each field, and the corpus being the cleaned texts of
\* the fields numbered in long, all of them and no other
Cleaned(fields) == [i \in DOMAIN fields |-> CleanText(fields[i])]
KeepsExactly(cleaned, long) ==
    /\ \A k \in DOMAIN all_text : \E i \in long : all_text[k] = cleaned[i]
    /\ \A i \in long : cleaned[i] \in Range(all_text)

\* C14: every unit of the corpus is the cleaned text of a field whose raw,
\* unstripped length exceeds 10 and whose cleaned text is non-empty, and every
\* such field has its cleaned text in the corpus
RawLong(f) == TextLen(f) > 10 /\ CleanText(f) # <<>>
KeepsRawLongFields ==
    Extracted =>
        LET fields == FieldsInOrder(user_data)
            cleaned == Cleaned(fields)
        IN  KeepsExactly(cleaned, {i \in DOMAIN fields :
                                      TextLen(fields[i]) > 10 /\ cleaned[i] # <<>>})
\* C14, amended: the length that must exceed 10 is that of the field without
\* its leading and trailing whitespace; with it, the filter keeps exactly the
\* fields that are long enough and whose cleaned text is non-empty
StrippedLong(f) == TextLen(Strip(f)) > 10 /\ CleanText(f) # <<>>
KeepsStrippedLongFields ==
    Extracted =>
        LET fields == FieldsInOrder(user_data)
            cleaned == Cleaned(fields)
        IN  KeepsExactly(cleaned, {i \in DOMAIN fields :
                                      TextLen(Strip(fields[i])) > 10 /\ cleaned[i] # <<>>})
\* a field of more than 10 characters, 10 or fewer without its surrounding
\* whitespace, was dropped, and another field was kept
PaddedFieldDropped ==
    /\ pc = "text_statistics" /\ all_text # <<>>
    /\ \E f \in Range(FieldsInOrder(user_data)) :
           RawLong(f) /\ ~StrippedLong(f) /\ CleanText(f) \notin Range(all_text)

\* C15: the corpus keeps the input order and every duplicate: its units are
\* the kept fields, one unit for each, in the order posts before comments,
\* title before body, posts and comments in source order
InFieldOrder(cleaned, kept) ==
    /\ Len(all_text) = Cardinality(kept)
    /\ \A i \in kept : all_text[Cardinality({j \in kept : j <= i})] = cleaned[i]
SampleData ==
    [posts |-> <<Post(GameTitle, GameBody, 12, 23 * Hour, "gaming", 3)>>,
     comments |-> <<Comment(BadText, 1, 10 * Hour, "gaming")>>]
SampleResults == ResultAlone(SampleData, ExtractTextData(SampleData))

RuleFacets == {"text_statistics", "sentiment_analysis", "personality_traits", "interests",
               "writing_style", "activity_patterns", "community_engagement",
               "topic_modeling", "mbti_estimation"}
\* result mappings with each facet missing, empty or as analysed
ResultInputs ==
    {[k \in {f \in RuleFacets : kind[f] # "missing"} |->
         IF kind[k] = "empty" THEN EmptyDict ELSE SampleResults[k]] :
        kind \in [RuleFacets -> {"missing", "empty", "present"}]}
\* no unit, one unit without a word, and the corpora of the raw inputs
FacetCorpora == {<<>>, <<<<>>>>} \cup {ExtractTextData(d) : d \in UserDataSet}

Called(function) == "call " \o function
ReturnedFrom(function) == function \o " returned"

InitFacet ==
    /\ \/ /\ pc \in {Called("_analyze_text_statistics"),
                     Called("_detect_personality_traits"), Called("_detect_interests")}
          /\ all_text \in FacetCorpora
          /\ analysis_results = EmptyDict
       \/ /\ pc = Called("_calculate_confidence_scores")
          /\ all_text = <<>>
          /\ analysis_results \in ResultInputs
    /\ user_data = NoData
    /\ retval = EmptyDict
    /\ facet_error = "none"
    /\ vectorizer = UnfittedVectorizer
    /\ prev = NoPrev
    /\ sentiments = <<>>
    /\ type_scores = EmptyDict
    /\ facet = EmptyDict
    /\ requests = NoRequests
    /\ llm = NoService

\* the function named by pc returns value
FacetReturns(function, value) ==
    /\ pc = Called(function)
    /\ facet' = value
    /\ pc' = ReturnedFrom(function)
    /\ UNCHANGED <<user_data, all_text, analysis_results, retval, facet_error, vectorizer,
                   prev, sentiments, type_scores, requests, llm>>

CallTextStatistics ==
    FacetReturns("_analyze_text_statistics", AnalyzeTextStatistics(all_text))
CallPersonalityTraits ==
    FacetReturns("_detect_personality_traits", DetectPersonalityTraits(all_text))
CallInterests == FacetReturns("_detect_interests", DetectInterests(all_text))
CallConfidenceScores ==
    FacetReturns("_calculate_confidence_scores", CalculateConfidenceScores(analysis_results))

NextFacet ==
    \/ CallTextStatistics
    \/ CallPersonalityTraits
    \/ CallInterests
    \/ CallConfidenceScores
SpecFacet == InitFacet /\ [][NextFacet]_vars


\* C16: _analyze_text_statistics on the empty corpus returns a mapping that
\* has every statistics field, each with value zero
StatisticsFields ==
    {"total_texts", "total_words", "meaningful_words", "total_sentences",
     "avg_words_per_text", "avg_sentences_per_text", "avg_words_per_sentence",
     "vocabulary_size", "lexical_diversity", "avg_text_length"}
EmptyCorpusZeroStatistics ==
    (pc = ReturnedFrom("_analyze_text_statistics") /\ all_text = <<>>) =>
        /\ DOMAIN facet = StatisticsFields
        /\ \A k \in StatisticsFields : facet[k] \in {0, FZero}

\* C17: whichever facets are missing from the result mapping or empty in it,
\* the confidence calculator returns an entry for each facet of its rule
\* table, and the entry of a missing or empty facet is 0.0 or the default 0.5
DefaultConfidenceForEmptyFacets ==
    pc = ReturnedFrom("_calculate_confidence_scores") =>
        \A k \in RuleFacets :
            /\ k \in DOMAIN facet
            /\ IsEmpty(Get(analysis_results, k, EmptyDict)) =>
                   facet[k] \in {FZero, Hundredths(50)}

\* C18: on a corpus without a unit or without a word, the trait scorer and the
\* interest scorer return the score 0.0 for every category of their lexicon
Degenerate(texts) == texts = <<>> \/ Words(JoinTexts(texts)) = <<>>
DegenerateCorpusZeroScores ==
    /\ (pc = ReturnedFrom("_detect_personality_traits") /\ Degenerate(all_text)) =>
           /\ "trait_scores" \in DOMAIN facet
           /\ \A t \in Range(TraitOrder) : facet.trait_scores[t] = FZero
    /\ (pc = ReturnedFrom("_detect_interests") /\ Degenerate(all_text)) =>
           /\ "interest_scores" \in DOMAIN facet
           /\ \A c \in Range(InterestOrder) : facet.interest_scores[c] = FZero


\* the lowercase token stream of the corpus
CorpusWords == Words(JoinTexts(all_text))
\* the keywords of a list that are among the tokens, each counted once
PresenceHits(keywords, words) == Cardinality(keywords \cap Range(words))
\* the tokens of the stream that are a keyword of a list, repeats counted
FrequencyHits(keywords, words) == Cardinality({i \in DOMAIN words : words[i] \in keywords})

\* C19: for a non-empty corpus, the score of every trait is
\* min(hits / unit_count * 10, 1.0), hits being the number of distinct keywords
\* of the trait among the lowercase tokens of the corpus
TraitScoresByPresence ==
    HasFacet("personality_traits") =>
        LET words == CorpusWords
        IN  \A t \in Range(TraitOrder) :
                analysis_results["personality_traits"].trait_scores[t] =
                    FMin(FMulSmall(FDivInts(PresenceHits(personality_indicators[t], words),
                                            Len(all_text)), 10), FOne)
\* a keyword that the corpus repeats was counted once, in a score below 1.0
RepeatedKeywordCountedOnce ==
    /\ HasFacet("personality_traits")
    /\ LET words == CorpusWords
       IN  \E t \in Range(TraitOrder) :
               /\ FrequencyHits(personality_indicators[t], words) >
                      PresenceHits(personality_indicators[t], words)
               /\ FLess(FZero, analysis_results["personality_traits"].trait_scores[t])
               /\ FLess(analysis_results["personality_traits"].trait_scores[t], FOne)

\* C20: for a non-empty corpus, the score of every interest category is
\* min(hits / word_count * 100, 1.0), hits being the number of tokens of the
\* lowercase token stream that are a keyword of the category, repeats counted,
\* and word_count the length of that stream
InterestScoresByFrequency ==
    HasFacet("interests") =>
        LET words == CorpusWords
        IN  \A c \in Range(InterestOrder) :
                analysis_results["interests"].interest_scores[c] =
                    FMin(FMulSmall(FDivInts(FrequencyHits(interest_categories[c], words),
                                            Len(words)), 100), FOne)
\* a keyword was counted at each of its occurrences: the score is 1.0, and
\* would be below 1.0 had the keyword been counted once
RepeatedKeywordCountedEachTime ==
    /\ HasFacet("interests")
    /\ LET words == CorpusWords
       IN  \E c \in Range(InterestOrder) :
               /\ FrequencyHits(interest_categories[c], words) >
                      PresenceHits(interest_categories[c], words)
               /\ analysis_results["interests"].interest_scores[c] = FOne
               /\ FLess(FMulSmall(FDivInts(PresenceHits(interest_categories[c], words),
                                           Len(words)), 100), FOne)


\* the position of a category in its lexicon
LexiconIndex(order, c) == CHOOSE i \in DOMAIN order : order[i] = c
\* top is the first five of the categories of order ranked by non-increasing
\* score, categories of equal score in the order of the lexicon
RankedTopFive(top, scores, order) ==
    /\ Len(top) = 5
    /\ \A k \in DOMAIN top : top[k][1] \in Range(order) /\ top[k][2] = scores[top[k][1]]
    /\ \A k \in 1..4 :
           \/ FLess(top[k + 1][2], top[k][2])
           \/ /\ top[k + 1][2] = top[k][2]
              /\ LexiconIndex(order, top[k][1]) < LexiconIndex(order, top[k + 1][1])
    /\ \A c \in Range(order) \ {top[k][1] : k \in DOMAIN top} :
           \/ FLess(scores[c], top[5][2])
           \/ /\ scores[c] = top[5][2]
              /\ LexiconIndex(order, top[5][1]) < LexiconIndex(order, c)

\* C21: dominant_traits and top_interests are the first 5 categories in
\* non-increasing score order, and two categories of equal score appear in the
\* order in which the lexicon lists them
TopFiveRankedStably ==
    /\ HasFacet("personality_traits") =>
           RankedTopFive(analysis_results["personality_traits"].dominant_traits,
                         analysis_results["personality_traits"].trait_scores, TraitOrder)
    /\ HasFacet("interests") =>
           RankedTopFive(analysis_results["interests"].top_interests,
                         analysis_results["interests"].interest_scores, InterestOrder)
\* the ranking had both to order and to break a tie: among the dominant traits
\* two have different scores, two have the same positive score, and a trait
\* listed earlier in the lexicon ranks below one listed later
TiedTraitsRanked ==
    /\ HasFacet("personality_traits") /\ HasFacet("interests")
    /\ LET top == analysis_results["personality_traits"].dominant_traits
       IN  /\ \E k \in 1..4 : FLess(top[k + 1][2], top[k][2])
           /\ \E k \in 1..4 : top[k + 1][2] = top[k][2] /\ FLess(FZero, top[k][2])
           /\ \E k \in 1..4 : LexiconIndex(TraitOrder, top[k + 1][1]) <
                                   LexiconIndex(TraitOrder, top[k][1])


\* the last ten polarities in corpus order, and the polarities before them
RecentUnits(sents) ==
    [i \in 1..Min(10, Len(sents)) |-> sents[Len(sents) - Min(10, Len(sents)) + i]]
OlderUnits(sents) == [i \in 1..Max(Len(sents) - 10, 0) |-> sents[i]]
\* the mean of a slice, 0 for the empty slice
SliceMean(slice) == IF slice = <<>> THEN FZero ELSE NpMean(slice)

\* C22: with recent the last 10 units in corpus order and older the units
\* before them, the trend is "improving" when mean(recent) > mean(older) + 0.1,
\* "declining" when mean(recent) < mean(older) - 0.1, "stable" otherwise; with
\* fewer than 2 units sentiment_trends is empty
TrendFromRecentAndOlder ==
    pc = "aggregated" =>
        IF Len(sentiments) < 2 THEN facet.sentiment_trends = EmptyDict
        ELSE LET recent == SliceMean(RecentUnits(sentiments))
                 older == SliceMean(OlderUnits(sentiments))
                 improving == FLess(FAdd(older, Hundredths(10)), recent)
                 declining == FLess(recent, FSub(older, Hundredths(10)))
             IN  /\ improving => facet.sentiment_trends.trend = "improving"
                 /\ declining => facet.sentiment_trends.trend = "declining"
                 /\ ~improving /\ ~declining => facet.sentiment_trends.trend = "stable"
\* more than ten units: the last ten average +0.5, the ones before them -0.5,
\* and the trend is "improving"
ImprovingOverOlderUnits ==
    /\ pc = "aggregated"
    /\ Len(sentiments) > 10
    /\ facet.sentiment_trends.older_sentiment = Hundredths(-50)
    /\ facet.sentiment_trends.recent_sentiment = Hundredths(50)
    /\ facet.sentiment_trends.trend = "improving"


\* C28: for a corpus of 2 to 10 units the older slice is empty and its mean
\* is taken as 0, so the trend is "improving" iff the mean polarity of the
\* whole corpus is above 0.1, "declining" iff it is below -0.1, "stable"
\* otherwise, and the trend coincides with the sentiment category (positive,
\* negative, neutral respectively)
ShortCorpusTrendIsCategory ==
    (pc = "aggregated" /\ Len(sentiments) \in 2..10) =>
        LET mean == NpMean(sentiments)
            trend == facet.sentiment_trends.trend
        IN  /\ OlderUnits(sentiments) = <<>>
            /\ facet.sentiment_trends.older_sentiment = FZero
            /\ trend = "improving" <=> FLess(Hundredths(10), mean)
            /\ trend = "declining" <=> FLess(mean, Hundredths(-10))
            /\ trend = "stable" <=> ~FLess(Hundredths(10), mean) /\ ~FLess(mean, Hundredths(-10))
            /\ trend = "improving" <=> facet.sentiment_category = "positive"
            /\ trend = "declining" <=> facet.sentiment_category = "negative"
            /\ trend = "stable" <=> facet.sentiment_category = "neutral"
\* ten units of which the later ones are the more positive, and yet the mean
\* of the whole corpus decides: it is below -0.1, the trend is "declining"
ShortCorpusDeclining ==
    /\ pc = "aggregated"
    /\ Len(sentiments) = 10
    /\ FLess(sentiments[1], sentiments[10])
    /\ facet.sentiment_trends.trend = "declining"
    /\ facet.sentiment_category = "negative"


\* C23: for a non-empty corpus the MBTI type is one of the 16 four-letter
\* codes of the description table, and the description is never the
\* "Unknown type" fallback
MbtiTypeInTable ==
    pc = "estimated" =>
        /\ Cardinality(DOMAIN mbti_descriptions) = 16
        /\ facet.type \in DOMAIN mbti_descriptions
        /\ facet.description = mbti_descriptions[facet.type]
        /\ facet.description # "Unknown type"
\* three axes tied, at zero hits or at one, and one decided: the estimate is
\* ENFP, with its description from the table
TiedAxesDescribed ==
    /\ pc = "estimated"
    /\ type_scores["E"] > type_scores["I"]
    /\ type_scores["S"] = type_scores["N"]
    /\ type_scores["T"] = 0 /\ type_scores["F"] = 0
    /\ type_scores["J"] = type_scores["P"]
    /\ facet.type = "ENFP"
    /\ facet.description = "The Campaigner"


\* C24: the personality_traits confidence is (max trait score - mean trait
\* score) * 2 clamped to [0,1]: it is never negative, and it is 0 when the
\* eleven trait scores are equal
PersonalityConfidenceClamped ==
    HasFacet("personality_traits") =>
        LET trait_scores == analysis_results["personality_traits"].trait_scores
            values == [i \in DOMAIN TraitOrder |-> trait_scores[TraitOrder[i]]]
            spread == FMulSmall(FSub(FMaxOf(values), NpMean(values)), 2)
            confidence == analysis_results["personality_traits"].confidence
        IN  /\ confidence = IF FLess(spread, FZero) THEN FZero ELSE FMin(spread, FOne)
            /\ ~FLess(confidence, FZero)
            /\ (\A t \in Range(TraitOrder) : trait_scores[t] = values[1])
                   => confidence = FZero


(***************************************************************************)
(* LLMService.generate_persona: Groq, then Gemini, then the template.      *)
(* user_data and analysis_results are the arguments of the call, retval    *)
(* the persona it returns; each provider's API call is awaited in a thread *)
(* and answers with a text or raises.                                      *)
(***************************************************************************)
\* max_retries of _call_groq_with_retry and of _call_gemini_with_retry
max_retries == 1

\* what a provider's API answers: a persona in JSON, or a text without JSON
Contents == {"persona json", "no json"}
\* what it raises, by the message of the exception
Errors == {"rate limit exceeded", "connection timed out"}
\* any(keyword in error_str for keyword in ["rate", "429", "quota", "limit", "token"])
IsRateLimit(e) == e \in {"rate limit exceeded"}

\* LLMService._generate_template_persona: its content and its metadata
GenerateTemplatePersona(d, a) ==
    [content |-> "template",
     metadata |-> [source |-> "template",
                   username |-> Get(d, "username", "Unknown"),
                   confidence_overall |-> Hundredths(30)]]
\* LLMService._parse_llm_response: the persona of the JSON object, or the
\* template persona of no data when the text has no JSON object
ParseLlmResponse(content) ==
    IF content = "persona json" THEN [content |-> "llm", metadata |-> [format |-> "llm"]]
    ELSE GenerateTemplatePersona(EmptyDict, EmptyDict)
\* persona_data['metadata']['source'] = provider
WithSource(persona_data, p) ==
    [persona_data EXCEPT !.metadata =
        [k \in DOMAIN persona_data.metadata \cup {"source"} |->
            IF k = "source" THEN p ELSE persona_data.metadata[k]]]

Client(p) == IF p = "groq" THEN llm.groq_client ELSE llm.gemini_client
\* where generate_persona goes on when provider p gave no persona
AfterProvider(p) == IF p = "groq" THEN "try gemini" ELSE "template"
Logged(event) == [llm EXCEPT !.log = Append(@, event)]

PersonaSubjects ==
    {NoData} \cup {[username |-> u, posts |-> <<>>, comments |-> <<>>] : u \in Subjects}
InitPersona ==
    /\ user_data \in PersonaSubjects
    /\ analysis_results \in {EmptyDict, SampleResults}
    /\ llm \in {[NoService EXCEPT !.groq_client = g, !.gemini_client = m] :
                   g \in BOOLEAN, m \in BOOLEAN}
    /\ pc = "generate_persona"
    /\ all_text = <<>>
    /\ retval = EmptyDict
    /\ facet_error = "none"
    /\ vectorizer = UnfittedVectorizer
    /\ prev = NoPrev
    /\ sentiments = <<>>
    /\ type_scores = EmptyDict
    /\ facet = EmptyDict
    /\ requests = NoRequests

\* line 70: the prompt is built, no provider called yet
CreatePersonaPrompt ==
    /\ pc = "generate_persona"
    /\ pc' = "try groq"
    /\ UNCHANGED <<user_data, all_text, analysis_results, retval, facet_error, vectorizer,
                   prev, sentiments, type_scores, facet, requests, llm>>

\* lines 73-75 and 81-83: `if self.<p>_client:` enters _call_<p>_with_retry
TryProvider(p) ==
    /\ pc = "try " \o p
    /\ IF Client(p)
       THEN /\ llm' = [llm EXCEPT !.frames[p] = [attempt |-> 0, last_exception |-> "None"]]
            /\ pc' = p \o " loop"
       ELSE /\ pc' = AfterProvider(p)
            /\ UNCHANGED llm
    /\ UNCHANGED <<user_data, all_text, analysis_results, retval, facet_error, vectorizer,
                   prev, sentiments, type_scores, facet, requests>>

\* the loop run once more than max_retries allows
CallProviderOnceMore(p) ==
    /\ pc = p \o " loop"
    /\ llm.frames[p].attempt <= max_retries
    /\ llm' = Logged(p \o " call")
    /\ pc' = p \o " called"
    /\ UNCHANGED <<user_data, all_text, analysis_results, retval, facet_error, vectorizer,
                   prev, sentiments, type_scores, facet, requests>>
\* lines 97-109 and 137-148: an iteration of `for attempt in range(max_retries)`
\* starts the API call in a thread and awaits it
CallProvider(p) ==
    /\ pc = p \o " loop"
    /\ llm.frames[p].attempt < max_retries
    /\ llm' = Logged(p \o " call")
    /\ pc' = p \o " called"
    /\ UNCHANGED <<user_data, all_text, analysis_results, retval, facet_error, vectorizer,
                   prev, sentiments, type_scores, facet, requests>>

\* the API answered and generate_persona went on to the next provider
\* without returning the answer
ProviderReturnsAndFallsThrough(p, content) ==
    /\ pc = p \o " called"
    /\ retval' = WithSource(ParseLlmResponse(content), p)
    /\ pc' = AfterProvider(p)
    /\ UNCHANGED <<user_data, all_text, analysis_results, facet_error, vectorizer,
                   prev, sentiments, type_scores, facet, requests, llm>>
\* lines 111-115 and 149-153, then lines 76 and 84: the API answered, the
\* parsed persona is returned to generate_persona, which returns it
ProviderReturns(p, content) ==
    /\ pc = p \o " called"
    /\ retval' = WithSource(ParseLlmResponse(content), p)
    /\ pc' = "returned"
    /\ UNCHANGED <<user_data, all_text, analysis_results, facet_error, vectorizer,
                   prev, sentiments, type_scores, facet, requests, llm>>

\* lines 117-127 and 154-164: the API raised.  A rate-limit error breaks the
\* loop; another error sleeps for base_delay if an attempt is left, and the
\* loop goes on
ProviderFails(p, e) ==
    /\ pc = p \o " called"
    /\ LET attempt == llm.frames[p].attempt
           failed == Append(llm.log, p \o " attempt failed")
       IN  IF IsRateLimit(e)
           THEN /\ llm' = [llm EXCEPT !.frames[p].last_exception = e, !.log = failed]
                /\ pc' = p \o " raise"
           ELSE /\ llm' = [llm EXCEPT !.frames[p] = [attempt |-> attempt + 1,
                                                    last_exception |-> e],
                                      !.log = IF attempt < max_retries - 1
                                              THEN Append(failed, "sleep") ELSE failed]
                /\ pc' = p \o " loop"
    /\ UNCHANGED <<user_data, all_text, analysis_results, retval, facet_error, vectorizer,
                   prev, sentiments, type_scores, facet, requests>>

\* lines 129 and 165, then lines 77-78 and 85-86: the loop is over,
\* last_exception is raised and generate_persona catches it
ProviderRaises(p) ==
    /\ \/ pc = p \o " raise"
       \/ pc = p \o " loop" /\ llm.frames[p].attempt >= max_retries
    /\ llm' = Logged(p \o " failed")
    /\ pc' = AfterProvider(p)
    /\ UNCHANGED <<user_data, all_text, analysis_results, retval, facet_error, vectorizer,
                   prev, sentiments, type_scores, facet, requests>>

\* lines 88-90: no provider gave a persona, the template persona is returned
TemplateFallback ==
    /\ pc = "template"
    /\ llm' = Logged("template")
    /\ retval' = GenerateTemplatePersona(user_data, analysis_results)
    /\ pc' = "returned"
    /\ UNCHANGED <<user_data, all_text, analysis_results, facet_error, vectorizer,
                   prev, sentiments, type_scores, facet, requests>>

NextPersona ==
    \/ CreatePersonaPrompt
    \/ \E p \in Range(Providers) : TryProvider(p)
    \/ \E p \in Range(Providers) : CallProvider(p)
    \/ \E p \in Range(Providers), content \in Contents : ProviderReturns(p, content)
    \/ \E p \in Range(Providers), e \in Errors : ProviderFails(p, e)
    \/ \E p \in Range(Providers) : ProviderRaises(p)
    \/ TemplateFallback
SpecPersona == InitPersona /\ [][NextPersona]_vars

InLog(event) == \E i \in DOMAIN llm.log : llm.log[i] = event
\* the place of a log entry in the order Groq, Gemini, template
Turn(event) ==
    IF event \in {"groq call", "groq attempt failed", "groq failed"} THEN 1
    ELSE IF event \in {"gemini call", "gemini attempt failed", "gemini failed"} THEN 2
    ELSE IF event = "template" THEN 3 ELSE 0
NoPersonaFrom(p) == ~Client(p) \/ InLog(p \o " failed")

\* C25: generate_persona tries Groq, Gemini and the template in that order:
\* Gemini is called only if the Groq client is absent or its call failed, the
\* template persona is produced only if neither provider returned a persona,
\* and a persona an earlier provider returned is never replaced by a later one
ProvidersTriedInOrder ==
    /\ [](/\ \A i, j \in DOMAIN llm.log :
                 (i < j /\ Turn(llm.log[i]) > 0 /\ Turn(llm.log[j]) > 0)
                     => Turn(llm.log[i]) <= Turn(llm.log[j])
          /\ InLog("gemini call") => NoPersonaFrom("groq")
          /\ InLog("template") => NoPersonaFrom("groq") /\ NoPersonaFrom("gemini")
          /\ (retval # EmptyDict /\ retval.metadata.source = "groq")
                 => ~InLog("gemini call") /\ ~InLog("template")
          /\ (retval # EmptyDict /\ retval.metadata.source = "gemini")
                 => ~InLog("template"))
    /\ [][retval = EmptyDict /\ pc' = "returned"]_retval
\* Groq failed, Gemini was called and its persona returned, no template
GeminiAfterGroqFailed ==
    /\ pc = "returned"
    /\ llm.log = <<"groq call", "groq attempt failed", "groq failed", "gemini call">>
    /\ retval = [content |-> "llm", metadata |-> [format |-> "llm", source |-> "gemini"]]

ConfidenceKeysAreNonEmptyFacets ==
    Returned =>
        LET keys == DOMAIN retval["confidence_scores"]
        IN  /\ \A k \in RuleFacets : k \in keys <=> ~IsEmpty(retval[k])
            /\ "behavioral_clusters" \notin keys
            /\ "confidence_scores" \notin keys
            /\ keys \subseteq RuleFacets
\* a result with an empty rule-table facet (no topics), non-empty ones, and
\* non-empty behavioral_clusters and confidence_scores that have no key
TopicsWithoutConfidence ==
    /\ Returned
    /\ IsEmpty(retval["topic_modeling"])
    /\ ~IsEmpty(retval["behavioral_clusters"])
    /\ ~IsEmpty(retval["confidence_scores"])
    /\ "topic_modeling" \notin DOMAIN retval["confidence_scores"]
    /\ "text_statistics" \in DOMAIN retval["confidence_scores"]


\* the six facets computed from the corpus alone
TextFacets == {"text_statistics", "sentiment_analysis", "personality_traits", "interests",
               "writing_style", "mbti_estimation"}

\* C27: whenever analyze_user returns for a non-empty corpus, text_statistics,
\* sentiment_analysis, personality_traits, interests, writing_style and
\* mbti_estimation are non-empty mappings, and topic_modeling is empty whenever
\* the corpus has fewer than 3 units
TextFacetsNonEmpty ==
    (Returned /\ all_text # <<>>) =>
        /\ \A k \in TextFacets : ~IsEmpty(retval[k])
        /\ Len(all_text) < 3 => IsEmpty(retval["topic_modeling"])
\* a corpus of two units that share a term, a vocabulary topics could be
\* modelled on: the six facets are there and topic_modeling is empty
TwoUnitsNoTopics ==
    /\ Returned
    /\ Len(all_text) = 2
    /\ PrunedVocabulary([i \in DOMAIN all_text |-> ProcessText(all_text[i])]) # {}
    /\ \A k \in TextFacets : ~IsEmpty(retval[k])
    /\ IsEmpty(retval["topic_modeling"])


\* C29: personality_type is one of ITXX, IFXX, ETXX, EFXX; its first letter is
\* I only when the introvert score is strictly greater than the extrovert score
\* (a tie gives E), its second letter T only when the analytical score is
\* strictly greater than the creative score (a tie gives F)
PersonalityTypeLetters ==
    HasFacet("personality_traits") =>
        LET scores == analysis_results["personality_traits"].trait_scores
            type == analysis_results["personality_traits"].personality_type
            introverted == FLess(scores["extrovert"], scores["introvert"])
            thinking == FLess(scores["creative"], scores["analytical"])
        IN  /\ type \in {"ITXX", "IFXX", "ETXX", "EFXX"}
            /\ type \in {"ITXX", "IFXX"} <=> introverted
            /\ type \in {"ITXX", "ETXX"} <=> thinking
\* introvert and extrovert tied above zero, analytical above creative: ETXX
TiedAboveZeroGivesE ==
    /\ HasFacet("personality_traits")
    /\ LET scores == analysis_results["personality_traits"].trait_scores
       IN  /\ scores["introvert"] = scores["extrovert"]
           /\ FLess(FZero, scores["introvert"])
           /\ FLess(scores["creative"], scores["analytical"])
    /\ analysis_results["personality_traits"].personality_type = "ETXX"

====
